---- MODULE Spec2Model ----
(***************************************************************************)
(* A model of the Condor flight-plan generator: the turnpoint index        *)
(* (tp_database.py), the serializer build_fpl and the entry modes of        *)
(* condor_fpl_gen.py, and the load/generate handlers of condor_fpl_gui.py.  *)
(*                                                                         *)
(* Strings the code inspects character by character (names, landscape      *)
(* identifiers) are sequences of one-character strings.  A Python value     *)
(* that may be None is a sequence of length 0 (None) or 1 (the value).      *)
(* A dict is a function whose DOMAIN is the set of keys present.            *)
(***************************************************************************)
EXTENDS Integers, Sequences, FiniteSets, TLC

VARIABLES
    dirExists,  \* os.path.isdir(directory) for the corpus directory
    dir,        \* the corpus directory: file-name rank -> file, or NoFile
    db,         \* TurnpointDatabase._db
    loads,      \* load_fpl_dir calls made since the directory last changed
    call,       \* the last call made on the database, its result and output
    run,        \* the last run of an entry mode of condor_fpl_gen.main
    gui         \* the state of the GUI window (App) and of its worker threads

vars == <<dirExists, dir, db, loads, call, run, gui>>

(***************************************************************************)
(* Bounds of the model.                                                    *)
(***************************************************************************)
MaxFiles == 2      \* files the corpus directory may hold
MaxLoads == 2      \* load_fpl_dir calls checked on an unchanged directory

(***************************************************************************)
(* Characters and strings.                                                 *)
(***************************************************************************)
tab == "\t"

UpperCase == <<"A", "B", "C", "D", "E", "F", "G", "H", "I", "J", "K", "L", "M",
               "N", "O", "P", "Q", "R", "S", "T", "U", "V", "W", "X", "Y", "Z">>
LowerCase == <<"a", "b", "c", "d", "e", "f", "g", "h", "i", "j", "k", "l", "m",
               "n", "o", "p", "q", "r", "s", "t", "u", "v", "w", "x", "y", "z">>

\* str.lower() on one character
Lower(c) ==
    IF \E i \in 1..Len(UpperCase) : UpperCase[i] = c
    THEN LowerCase[CHOOSE i \in 1..Len(UpperCase) : UpperCase[i] = c]
    ELSE c

\* the characters str.split() and str.strip() treat as whitespace
IsSpace(c) == c \in {" ", tab}

\* ord(c): the order in which Python compares strings
Ord(c) ==
    CASE c = tab -> 9 [] c = " " -> 32 [] c = "A" -> 65 [] c = "B" -> 66
      [] c = "C" -> 67 [] c = "D" -> 68 [] c = "_" -> 95 [] c = "a" -> 97
      [] c = "b" -> 98 [] c = "c" -> 99 [] c = "d" -> 100 [] c = "x" -> 120
      [] c = "y" -> 121 [] c = "z" -> 122 [] OTHER -> 0

LowerStr(s) == [i \in 1..Len(s) |-> Lower(s[i])]

RECURSIVE Filter(_, _)
\* s.replace(c, "") for every c in drop
Filter(s, drop) ==
    IF s = <<>> THEN <<>>
    ELSE IF Head(s) \in drop THEN Filter(Tail(s), drop)
    ELSE <<Head(s)>> \o Filter(Tail(s), drop)

RECURSIVE LStrip(_)
LStrip(s) ==
    IF s # <<>> /\ IsSpace(Head(s)) THEN LStrip(Tail(s)) ELSE s

RECURSIVE RStrip(_)
RStrip(s) ==
    IF s # <<>> /\ IsSpace(s[Len(s)]) THEN RStrip(SubSeq(s, 1, Len(s) - 1)) ELSE s

\* str.strip()
Strip(s) == RStrip(LStrip(s))

RECURSIVE Split(_, _)
\* str.split(): the maximal runs of non-whitespace of s, in order; cur is the
\* word being read
Split(s, cur) ==
    IF s = <<>> THEN (IF cur = <<>> THEN <<>> ELSE <<cur>>)
    ELSE IF IsSpace(Head(s))
         THEN (IF cur = <<>> THEN <<>> ELSE <<cur>>) \o Split(Tail(s), <<>>)
         ELSE Split(Tail(s), Append(cur, Head(s)))

RECURSIVE Join(_)
\* " ".join(words)
Join(words) ==
    IF words = <<>> THEN <<>>
    ELSE IF Len(words) = 1 THEN Head(words)
    ELSE Head(words) \o <<" ">> \o Join(Tail(words))

\* faulty variant: the whitespace is collapsed, the case is kept
_norm_name_cased(name) == Join(Split(name, <<>>))

\* _norm_name: lowercase and collapse whitespace
_norm_name(name) == Join(Split(LowerStr(name), <<>>))

\* faulty variant: only underscores are dropped
_norm_landscape_keep_spaces(landscape) == Filter(LowerStr(landscape), {"_"})

\* _norm_landscape: lowercase, drop underscores and spaces
_norm_landscape(landscape) == Filter(LowerStr(landscape), {"_", " "})

RECURSIVE StrLess(_, _)
\* s < t as Python compares strings
StrLess(s, t) ==
    IF t = <<>> THEN FALSE
    ELSE IF s = <<>> THEN TRUE
    ELSE IF Ord(Head(s)) # Ord(Head(t)) THEN Ord(Head(s)) < Ord(Head(t))
    ELSE StrLess(Tail(s), Tail(t))

(***************************************************************************)
(* difflib.get_close_matches(word, possibilities, n=1, cutoff=0.75), as     *)
(* resolve calls it: SequenceMatcher with a = the candidate, b = the word,  *)
(* no junk (the strings are far shorter than the 200 characters at which    *)
(* autojunk starts).                                                        *)
(***************************************************************************)
CutoffNum == 3     \* cutoff=0.75 = CutoffNum / CutoffDen
CutoffDen == 4

RECURSIVE RunLen(_, _, _, _, _, _)
\* the length of the longest common run a[i:i+k] = b[j:j+k] (0-based, inside
\* a[..ahi], b[..bhi])
RunLen(a, b, i, j, ahi, bhi) ==
    IF i < ahi /\ j < bhi /\ a[i + 1] = b[j + 1]
    THEN 1 + RunLen(a, b, i + 1, j + 1, ahi, bhi)
    ELSE 0

\* SequenceMatcher.find_longest_match: <<i, j, k>> with k maximal, then i
\* minimal, then j minimal; <<alo, blo, 0>> when nothing matches
find_longest_match(a, b, alo, ahi, blo, bhi) ==
    LET P     == (alo..(ahi - 1)) \X (blo..(bhi - 1))
        K(p)  == RunLen(a, b, p[1], p[2], ahi, bhi)
        best  == {p \in P : K(p) > 0 /\ \A q \in P : K(q) <= K(p)}
        first == {p \in best : \A q \in best :
                     p[1] < q[1] \/ (p[1] = q[1] /\ p[2] <= q[2])}
    IN  IF best = {} THEN <<alo, blo, 0>>
        ELSE LET p == CHOOSE p \in first : TRUE IN <<p[1], p[2], K(p)>>

RECURSIVE MatchCount(_, _, _, _, _, _)
\* the size of the longest match m, and of the blocks to its left and right
MatchCountAround(m, a, b, alo, ahi, blo, bhi) ==
    IF m[3] = 0 THEN 0
    ELSE m[3] + MatchCount(a, b, alo, m[1], blo, m[2])
              + MatchCount(a, b, m[1] + m[3], ahi, m[2] + m[3], bhi)

\* the sum of the sizes of SequenceMatcher.get_matching_blocks(): the longest
\* match, then the same to its left and to its right
MatchCount(a, b, alo, ahi, blo, bhi) ==
    MatchCountAround(find_longest_match(a, b, alo, ahi, blo, bhi),
                     a, b, alo, ahi, blo, bhi)

Occurs(s, c) == Cardinality({i \in 1..Len(s) : s[i] = c})

Min(m, n) == IF m <= n THEN m ELSE n

RECURSIVE SumMin(_, _, _)
SumMin(a, b, chars) ==
    IF chars = {} THEN 0
    ELSE LET c == CHOOSE c \in chars : TRUE
         IN  Min(Occurs(a, c), Occurs(b, c)) + SumMin(a, b, chars \ {c})

\* the number of matches each of the three ratios of SequenceMatcher counts;
\* every ratio is 2.0 * matches / (len(a) + len(b)), and 1.0 for two empty strings
RatioMatches(a, b)     == MatchCount(a, b, 0, Len(a), 0, Len(b))
QuickMatches(a, b)     == SumMin(a, b, {a[i] : i \in 1..Len(a)})
RealQuickMatches(a, b) == Min(Len(a), Len(b))

\* 2.0 * m / (len(a) + len(b)) >= cutoff
AtLeastCutoff(m, a, b) ==
    IF Len(a) + Len(b) = 0 THEN TRUE
    ELSE 2 * m * CutoffDen >= CutoffNum * (Len(a) + Len(b))

\* faulty variant: a candidate exactly at the cutoff is turned away
PassesCutoffStrict(a, b) ==
    2 * RatioMatches(a, b) * CutoffDen > CutoffNum * (Len(a) + Len(b))

\* the test get_close_matches makes of candidate a against word b
PassesCutoff(a, b) ==
    /\ AtLeastCutoff(RealQuickMatches(a, b), a, b)
    /\ AtLeastCutoff(QuickMatches(a, b), a, b)
    /\ AtLeastCutoff(RatioMatches(a, b), a, b)

\* (m1 / t1, a1) < (m2 / t2, a2) as Python compares tuples
PairLess(m1, t1, a1, m2, t2, a2) ==
    m1 * t2 < m2 * t1 \/ (m1 * t2 = m2 * t1 /\ StrLess(a1, a2))

\* (ratio(a1, w), a1) < (ratio(a2, w), a2): the order heapq.nlargest ranks by
ScoreLess(a1, a2, w) ==
    PairLess(2 * RatioMatches(a1, w), Len(a1) + Len(w), a1,
             2 * RatioMatches(a2, w), Len(a2) + Len(w), a2)

\* faulty variant: the candidate of the least score is taken
Smallest(result, word) ==
    IF result = {} THEN <<>>
    ELSE <<CHOOSE x \in result : \A y \in result \ {x} : ScoreLess(x, y, word)>>

\* heapq.nlargest(1, result): <<>> or <<the candidate of the greatest score>>
Largest(result, word) ==
    IF result = {} THEN <<>>
    ELSE <<CHOOSE x \in result : \A y \in result \ {x} : ScoreLess(y, x, word)>>

\* get_close_matches(word, possibilities, n=1, cutoff=0.75): <<>> or <<best>>
get_close_matches(word, possibilities) ==
    Largest({x \in possibilities : PassesCutoff(x, word)}, word)

(***************************************************************************)
(* The corpus directory.  A file is what _parse_fpl's searches find in it:  *)
(* the value of its first Landscape= line, of its first Count=<digits>      *)
(* line, and per index i of its first TPName<i>=, TPPosX<i>=, TPPosY<i>=    *)
(* and TPPosZ<i>= lines (<<>>: the file has no such line).  Of a            *)
(* coordinate line it says whether float() parses it.                      *)
(* The files of a directory are scanned in the order of their names; a      *)
(* file's rank in that order is its slot in dir.                            *)
(***************************************************************************)
NoFile == [ext |-> <<>>]

dotfpl == <<".", "f", "p", "l">>   \* the ends of the file names
dotFPL == <<".", "F", "P", "L">>
dottxt == <<".", "t", "x", "t">>

\* fname.lower().endswith(".fpl"), on the end of the name
IsFplName(ext) == LowerStr(ext) = dotfpl

A_b  == <<"A", "_", "b">>          \* landscape identifiers; the first three
a_B  == <<"a", " ", "B">>          \* have the key "ab"
ab   == <<"a", "b">>
c_   == <<"c", " ">>
aTb  == <<"a", tab, "b">>
zz   == <<"z", "z">>

Abcd  == <<"A", "b", "c", "d">>    \* turnpoint names
abcd  == <<"a", "b", "c", "d">>
ABCD_ == <<" ", "A", "B", "C", "D", " ">>
abcy  == <<"a", "b", "c", "y">>
abcx  == <<"a", "b", "c", "x">>
abcdx == <<"a", "b", "c", "d", "x">>
a_d   == <<"a", " ", " ", "d">>
A_D   == <<"A", tab, "D">>
a_cd  == <<"a", " ", "c", "d">>

Ok   == "ok"        \* the shape of a coordinate line: float() parses it,
Bad  == "bad"       \* float() raises ValueError on it,
Miss == "missing"   \* the file has no such line

Row(name, sx, sy, sz) == [name |-> name, x |-> sx, y |-> sy, z |-> sz]
GoodRow(name) == Row(<<name>>, Ok, Ok, Ok)

FileOf(ext, readable, landscape, count, rows) ==
    [ext |-> ext, readable |-> readable, landscape |-> landscape,
     count |-> count, rows |-> rows]

\* the files the environment may put into the directory
FilePool ==
    { FileOf(dotfpl, TRUE, <<A_b>>, <<2>>, <<GoodRow(Abcd), GoodRow(abcy)>>),
      FileOf(dotFPL, TRUE, <<a_B>>, <<2>>, <<GoodRow(abcd), GoodRow(a_d)>>),
      FileOf(dotfpl, TRUE, <<c_>>,  <<2>>, <<GoodRow(abcy), GoodRow(ABCD_)>>),
      FileOf(dotfpl, TRUE, <<ab>>,  <<1>>, <<GoodRow(abcx), GoodRow(abcd)>>),
      FileOf(dotfpl, TRUE, <<ab>>,  <<2>>, <<Row(<<abcy>>, Ok, Miss, Ok), GoodRow(A_D)>>),
      FileOf(dotfpl, TRUE, <<ab>>,  <<2>>, <<GoodRow(abcd), Row(<<abcy>>, Ok, Ok, Bad)>>),
      FileOf(dotfpl, TRUE, <<c_>>,  <<>>,  <<GoodRow(abcd)>>),
      FileOf(dotfpl, TRUE, <<>>,    <<1>>, <<GoodRow(abcd)>>),
      FileOf(dotfpl, FALSE, <<ab>>, <<1>>, <<GoodRow(abcd)>>),
      FileOf(dottxt, TRUE, <<ab>>,  <<1>>, <<GoodRow(abcd)>>) }

\* the numbers the coordinate lines of row i (0-based) of the file in slot s hold:
\* every row of every file has coordinates of its own
CoordX(s, i) == 100 * s + 10 * i + 1
CoordY(s, i) == 100 * s + 10 * i + 2
CoordZ(s, i) == 100 * s + 10 * i + 3

(***************************************************************************)
(* _parse_fpl                                                              *)
(***************************************************************************)
ParseResult(landscape, tps, raised) ==
    [landscape |-> landscape, tps |-> tps, raised |-> raised]

\* the dict _parse_fpl appends for index i of the file in slot s
TpDict(f, s, i) ==
    [name |-> Strip(f.rows[i + 1].name[1]),
     x |-> CoordX(s, i), y |-> CoordY(s, i), z |-> CoordZ(s, i)]

\* index i has all four lines
RowPresent(f, i) ==
    /\ i + 1 <= Len(f.rows)
    /\ f.rows[i + 1].name # <<>>
    /\ f.rows[i + 1].x # Miss /\ f.rows[i + 1].y # Miss /\ f.rows[i + 1].z # Miss

\* float() raises on one of the three coordinate lines of index i
RowRaises(f, i) ==
    RowPresent(f, i) /\ Bad \in {f.rows[i + 1].x, f.rows[i + 1].y, f.rows[i + 1].z}

RECURSIVE ParseRows(_, _, _, _)
\* the loop over range(count): the dicts of the indices that have all four
\* lines, in order
ParseRows(f, s, i, count) ==
    IF i >= count THEN <<>>
    ELSE IF RowPresent(f, i) THEN <<TpDict(f, s, i)>> \o ParseRows(f, s, i + 1, count)
    ELSE ParseRows(f, s, i + 1, count)

\* _parse_fpl(path) for the file f in slot s; raised: a ValueError of float()
\* leaves the function
_parse_fpl(f, s) ==
    IF ~f.readable THEN ParseResult(<<>>, <<>>, FALSE)
    ELSE IF f.landscape = <<>> THEN ParseResult(<<>>, <<>>, FALSE)
    ELSE IF f.count = <<>> THEN ParseResult(<<Strip(f.landscape[1])>>, <<>>, FALSE)
    ELSE IF \E i \in 0..(f.count[1] - 1) : RowRaises(f, i)
         THEN ParseResult(<<Strip(f.landscape[1])>>, <<>>, TRUE)
    ELSE ParseResult(<<Strip(f.landscape[1])>>, ParseRows(f, s, 0, f.count[1]), FALSE)

(***************************************************************************)
(* TurnpointDatabase                                                       *)
(***************************************************************************)
EmptyDict == <<>>

Entry(tp) == <<tp.name, tp.x, tp.y, tp.z>>

\* d with d[k] = v
Put(d, k, v) == [j \in DOMAIN d \cup {k} |-> IF j = k THEN v ELSE d[j]]

LoadResult(d, added, raised) == [db |-> d, added |-> added, raised |-> raised]

RECURSIVE InsertTpsOverwrite(_, _, _, _)
\* faulty variant: a later duplicate overwrites the entry
InsertTpsOverwrite(d, lk, tps, added) ==
    IF tps = <<>> THEN LoadResult(d, added, FALSE)
    ELSE LET tp == Head(tps)
             nk == _norm_name(tp.name)
         IN  InsertTpsOverwrite(Put(d, lk, Put(d[lk], nk, Entry(tp))), lk, Tail(tps),
                                IF nk \in DOMAIN d[lk] THEN added ELSE added + 1)

RECURSIVE InsertTps(_, _, _, _)
\* the loop over tps: insert what the bucket lacks, count what was inserted
InsertTps(d, lk, tps, added) ==
    IF tps = <<>> THEN LoadResult(d, added, FALSE)
    ELSE LET tp == Head(tps)
             nk == _norm_name(tp.name)
         IN  IF nk \notin DOMAIN d[lk]
             THEN InsertTps(Put(d, lk, Put(d[lk], nk, Entry(tp))), lk, Tail(tps), added + 1)
             ELSE InsertTps(d, lk, Tail(tps), added)

RECURSIVE ScanFiles(_, _, _, _)
\* the loop over sorted(os.listdir(directory)), from slot s on
ScanFiles(d, files, s, added) ==
    IF s > Len(files) THEN LoadResult(d, added, FALSE)
    ELSE IF files[s] = NoFile THEN ScanFiles(d, files, s + 1, added)
    ELSE IF ~IsFplName(files[s].ext) THEN ScanFiles(d, files, s + 1, added)
    ELSE LET p == _parse_fpl(files[s], s)
         IN  IF p.raised THEN LoadResult(d, added, TRUE)
             ELSE IF p.landscape = <<>> \/ p.landscape[1] = <<>>
                  THEN ScanFiles(d, files, s + 1, added)
             ELSE LET lk == _norm_landscape(p.landscape[1])
                      d1 == IF lk \in DOMAIN d THEN d ELSE Put(d, lk, EmptyDict)
                      r  == InsertTps(d1, lk, p.tps, added)
                  IN  ScanFiles(r.db, files, s + 1, r.added)

\* self.load_fpl_dir(directory): the database after the call, the number
\* returned, and whether the call raised instead of returning
load_fpl_dir(d, exists, files) ==
    IF ~exists THEN LoadResult(d, 0, FALSE)
    ELSE ScanFiles(d, files, 1, 0)

\* what resolve returns and prints: coords is <<>> (None) or <<x, y, z>>,
\* notice is <<>> or <<requested name, matched canonical name>>
ResolveResult(coords, notice) == [coords |-> coords, notice |-> notice]

NotFound == ResolveResult(<<>>, <<>>)

Coords(entry) == <<entry[2], entry[3], entry[4]>>

\* faulty variant: the fuzzy match is tried first
resolve_fuzzy_first(d, landscape, name) ==
    LET lk == _norm_landscape(landscape)
        nk == _norm_name(name)
    IN  IF lk \notin DOMAIN d THEN NotFound
        ELSE LET hits == get_close_matches(nk, DOMAIN d[lk] \ {nk})
             IN  IF hits # <<>>
                 THEN ResolveResult(Coords(d[lk][hits[1]]), <<name, d[lk][hits[1]][1]>>)
                 ELSE IF nk \in DOMAIN d[lk]
                      THEN ResolveResult(Coords(d[lk][nk]), <<>>)
                      ELSE NotFound

\* faulty variant: the coordinates of a close match are returned without notice
FuzzyMatchSilent(tp_dict, hits, name) ==
    IF hits # <<>>
    THEN ResolveResult(Coords(tp_dict[hits[1]]), <<>>)
    ELSE NotFound

\* what resolve does with hits, the result of get_close_matches
FuzzyMatch(tp_dict, hits, name) ==
    IF hits # <<>>
    THEN ResolveResult(Coords(tp_dict[hits[1]]), <<name, tp_dict[hits[1]][1]>>)
    ELSE NotFound

\* faulty variant: the bucket is looked up with setdefault, which inserts an
\* empty bucket for a landscape the index lacks
DbAfterSetdefault(d, lk) ==
    IF lk \in DOMAIN d THEN d
    ELSE [k \in DOMAIN d \cup {lk} |-> IF k = lk THEN EmptyDict ELSE d[k]]

\* the index after self._db.get(lk, {}) or self._db.get(lk): dict.get never
\* inserts, and the queries assign nothing to the index or to a bucket
DbAfterGet(d, lk) == d

\* resolve, lk and nk being the normalised landscape and name
ResolveKeys(d, lk, nk, name) ==
    IF lk \notin DOMAIN d THEN NotFound
    ELSE IF nk \in DOMAIN d[lk] THEN ResolveResult(Coords(d[lk][nk]), <<>>)
    ELSE FuzzyMatch(d[lk], get_close_matches(nk, DOMAIN d[lk]), name)

\* self.resolve(landscape, name)
resolve(d, landscape, name) ==
    ResolveKeys(d, _norm_landscape(landscape), _norm_name(name), name)

\* self.count(landscape)
count(d, landscape) ==
    LET lk == _norm_landscape(landscape)
    IN  IF lk \in DOMAIN d THEN Cardinality(DOMAIN d[lk]) ELSE 0

\* self.known_tps(landscape), as the set of the canonical names listed
known_tps(d, landscape) ==
    LET lk == _norm_landscape(landscape)
    IN  IF lk \in DOMAIN d THEN {d[lk][nk][1] : nk \in DOMAIN d[lk]} ELSE {}

\* self.known_landscapes()
known_landscapes(d) == DOMAIN d

(***************************************************************************)
(* The calls on the database and the steps of its environment.             *)
(***************************************************************************)
\* the landscape identifiers and names the callers ask for
QueryLandscapes == {A_b, a_B, ab, c_, aTb, zz}
QueryNames      == {Abcd, ABCD_, abcy, abcx, abcdx, a_d, A_D, a_cd, zz}

NoCall == [op |-> "none"]

\* no command-line run is under way; no window is open
NoRun == [mode |-> "none", status |-> "", input |-> <<>>, task |-> <<>>,
          after |-> <<>>, content |-> <<>>, out |-> <<>>, err |-> <<>>]
NoGui == [open |-> FALSE, pdf |-> <<>>, task |-> <<>>, gen |-> "disabled",
          workers |-> <<>>, events |-> <<>>, out |-> <<>>, dialog |-> ""]

InitDb ==
    /\ dirExists \in BOOLEAN
    /\ dir = [s \in 1..MaxFiles |-> NoFile]
    /\ db = EmptyDict
    /\ loads = 0
    /\ call = NoCall
    /\ run = NoRun
    /\ gui = NoGui

\* the environment puts a file into the directory; s is the rank of its name
\* among the names of the directory (the listing is what os.listdir returns)
AddFile(s, f) ==
    /\ call = NoCall
    /\ dirExists
    /\ dir[s] = NoFile
    /\ dir' = [dir EXCEPT ![s] = f]
    /\ loads' = 0
    /\ call' = NoCall
    /\ UNCHANGED <<dirExists, db, run, gui>>

\* db.load_fpl_dir(directory)
LoadFplDir ==
    /\ call = NoCall
    /\ loads < MaxLoads
    /\ LET r == load_fpl_dir(db, dirExists, dir)
       IN  /\ db' = r.db
           /\ call' = [op |-> "load_fpl_dir", before |-> db,
                       ret |-> IF r.raised THEN <<>> ELSE <<r.added>>,
                       raised |-> r.raised]
    /\ loads' = loads + 1
    /\ UNCHANGED <<dirExists, dir, run, gui>>

\* db.resolve(landscape, name)
Resolve(landscape, name) ==
    /\ call = NoCall
    /\ LET r == resolve(db, landscape, name)
       IN  call' = [op |-> "resolve", landscape |-> landscape, name |-> name,
                    ret |-> r.coords, notice |-> r.notice]
    /\ db' = DbAfterGet(db, _norm_landscape(landscape))
    /\ UNCHANGED <<dirExists, dir, loads, run, gui>>

\* db.count(landscape)
Count(landscape) ==
    /\ call = NoCall
    /\ call' = [op |-> "count", landscape |-> landscape, ret |-> count(db, landscape)]
    /\ db' = DbAfterGet(db, _norm_landscape(landscape))
    /\ UNCHANGED <<dirExists, dir, loads, run, gui>>

\* db.known_tps(landscape)
KnownTps(landscape) ==
    /\ call = NoCall
    /\ call' = [op |-> "known_tps", landscape |-> landscape,
                ret |-> known_tps(db, landscape)]
    /\ db' = DbAfterGet(db, _norm_landscape(landscape))
    /\ UNCHANGED <<dirExists, dir, loads, run, gui>>

\* db.known_landscapes()
KnownLandscapes ==
    /\ call = NoCall
    /\ call' = [op |-> "known_landscapes", ret |-> known_landscapes(db)]
    /\ UNCHANGED <<dirExists, dir, db, loads, run, gui>>

\* the caller takes the result of the call; the calls are made one at a time
Return ==
    /\ call # NoCall
    /\ call' = NoCall
    /\ UNCHANGED <<dirExists, dir, db, loads, run, gui>>

NextDb ==
    \/ \E s \in 1..MaxFiles, f \in FilePool : AddFile(s, f)
    \/ LoadFplDir
    \/ \E l \in QueryLandscapes, n \in QueryNames : Resolve(l, n)
    \/ \E l \in QueryLandscapes : Count(l)
    \/ \E l \in QueryLandscapes : KnownTps(l)
    \/ KnownLandscapes
    \/ Return

SpecDb == InitDb /\ [][NextDb]_vars

\* the files of the pool every line of which the loader takes
SoundFiles ==
    {f \in FilePool :
        /\ f.readable /\ f.ext \in {dotfpl, dotFPL}
        /\ f.landscape # <<>> /\ f.count # <<>>
        /\ \A i \in 1..Len(f.rows) : {f.rows[i].x, f.rows[i].y, f.rows[i].z} = {Ok}}

\* the query phase: the directory holds sound files only and is loaded, the
\* callers ask
NextQuery ==
    \/ \E s \in 1..MaxFiles, f \in SoundFiles : AddFile(s, f)
    \/ LoadFplDir
    \/ \E l \in QueryLandscapes, n \in QueryNames : Resolve(l, n)
    \/ \E l \in QueryLandscapes : Count(l)
    \/ \E l \in QueryLandscapes : KnownTps(l)
    \/ KnownLandscapes
    \/ Return

SpecQuery == InitDb /\ [][NextQuery]_vars

\* the load phase alone: the directory is filled and loaded, nobody queries
NextLoad ==
    \/ \E s \in 1..MaxFiles, f \in FilePool : AddFile(s, f)
    \/ LoadFplDir
    \/ Return

SpecLoad == InitDb /\ [][NextLoad]_vars

(***************************************************************************)
(* The two normalizers called on their own, on every string of up to       *)
(* MaxLen characters: letters of both cases, the separators and a          *)
(* whitespace character other than the space.                              *)
(***************************************************************************)
MaxLen == 4

NormStrings == UNION {[1..k -> {"A", "b", "_", " ", tab}] : k \in 0..MaxLen}

\* _norm_name(s)
NormName(s) ==
    /\ call = NoCall
    /\ call' = [op |-> "_norm_name", arg |-> s, ret |-> _norm_name(s)]
    /\ UNCHANGED <<dirExists, dir, db, loads, run, gui>>

\* _norm_landscape(s)
NormLandscape(s) ==
    /\ call = NoCall
    /\ call' = [op |-> "_norm_landscape", arg |-> s, ret |-> _norm_landscape(s)]
    /\ UNCHANGED <<dirExists, dir, db, loads, run, gui>>

NextNorm ==
    \/ \E s \in NormStrings : NormName(s)
    \/ \E s \in NormStrings : NormLandscape(s)
    \/ Return

SpecNorm == InitDb /\ [][NextNorm]_vars

(***************************************************************************)
(* condor_fpl_gen.py: conversion helpers.  A number the code formats with   *)
(* a fixed number of decimals is kept as the exact fraction it prints.      *)
(***************************************************************************)
\* round(p / q) for p >= 0, q > 0: Python rounds a tie to the even neighbour
Round(p, q) ==
    LET f == p \div q
        r == p % q
    IN  IF 2 * r < q THEN f
        ELSE IF 2 * r > q THEN f + 1
        ELSE IF f % 2 = 0 THEN f ELSE f + 1

\* kts_to_ms(kts) = kts * 0.514444, in millionths of a metre per second
kts_to_ms(kts) == kts * 514444

\* round(kts * KTS_TO_KMH), KTS_TO_KMH = 1.852
kts_to_kmh_rounded(kts) == Round(kts * 1852, 1000)

\* cloud_base_to_inversion(ft) = round(ft * 0.3048)
cloud_base_to_inversion(cloud_base_ft) == Round(cloud_base_ft * 3048, 10000)

\* the days from 1970-01-01 to the date <<y, m, d>> of the proleptic
\* Gregorian calendar (what datetime.date differences count)
DaysFromCivil(date) ==
    LET y   == IF date[2] <= 2 THEN date[1] - 1 ELSE date[1]
        era == y \div 400
        yoe == y - era * 400
        mp  == IF date[2] > 2 THEN date[2] - 3 ELSE date[2] + 9
        doy == (153 * mp + 2) \div 5 + date[3] - 1
        doe == yoe * 365 + yoe \div 4 - yoe \div 100 + doy
    IN  era * 146097 + doe - 719468

\* date_to_excel(date_str): the days since datetime.date(1899, 12, 30); an ISO
\* date string is the triple <<year, month, day>> it spells
date_to_excel(date) == DaysFromCivil(date) - DaysFromCivil(<<1899, 12, 30>>)

gate     == <<"g", "a", "t", "e">>
line     == <<"l", "i", "n", "e">>
airborne == <<"a", "i", "r", "b", "o", "r", "n", "e">>
tow      == <<"t", "o", "w">>

\* faulty variant: the name is looked up as spelled, without lower()
start_type_code_as_spelled(name) ==
    IF name = gate THEN 0
    ELSE IF name = line THEN 1
    ELSE 2

\* start_type_code(name)
start_type_code(name) ==
    LET n == LowerStr(name)
    IN  IF n = gate THEN 0
        ELSE IF n = line THEN 1
        ELSE IF n = airborne THEN 2
        ELSE IF n = tow THEN 2
        ELSE 2

(***************************************************************************)
(* build_fpl.  A task is a dict whose values are <<>> (null) or <<value>>;  *)
(* a turnpoint is a dict of plain values.  A line of the output is          *)
(* [key, idx, val]: a literal line has val = <<>>, a formatted line         *)
(* key<idx>=val has val = <<the value formatted>> (idx = -1: no index).     *)
(***************************************************************************)
Centro_Italia3 ==
    <<"C", "e", "n", "t", "r", "o", "_", "I", "t", "a", "l", "i", "a", "3">>

DefaultDate == <<2026, 6, 21>>

\* dict.get(k, default) and dict.get(k)
GetOr(d, k, default) == IF k \in DOMAIN d THEN d[k] ELSE <<default>>
Get(d, k)            == IF k \in DOMAIN d THEN d[k] ELSE <<>>

\* `value or default` for a number, and for a string
OrNum(o, default) == IF o = <<>> \/ o[1] = 0 THEN default ELSE o[1]
OrStr(o, default) == IF o = <<>> \/ o[1] = <<>> THEN default ELSE o[1]

Text(t)         == [key |-> t, idx |-> -1, val |-> <<>>]
KV(k, v)        == [key |-> k, idx |-> -1, val |-> <<v>>]
TPKV(k, i, v)   == [key |-> k, idx |-> i, val |-> <<v>>]

TpKeys == {"name", "x", "y", "z"}

\* faulty variant: without airport_tp the last task turnpoint is cloned
AptRawLast(task) ==
    IF "airport_tp" \in DOMAIN task THEN task["airport_tp"][1]
    ELSE task["turnpoints"][1][Len(task["turnpoints"][1])]

\* the dict the airport entry is copied from: task["airport_tp"] or, without
\* that key, turnpoints[0]
AptRaw(task) ==
    IF "airport_tp" \in DOMAIN task THEN task["airport_tp"][1]
    ELSE task["turnpoints"][1][1]

\* faulty variant: the airport entry keeps the sector of the dict it is copied from
AirportTpKeepSector(apt_raw) ==
    [k \in DOMAIN apt_raw \cup {"is_airport"} |->
        IF k = "is_airport" THEN TRUE ELSE apt_raw[k]]

\* the airport_tp dict build_fpl makes: a fixed wide sector
AirportTp(apt_raw) ==
    [name |-> apt_raw["name"], x |-> apt_raw["x"], y |-> apt_raw["y"],
     z |-> apt_raw["z"], is_airport |-> TRUE, radius_m |-> 3000,
     angle_deg |-> 90, sector_type |-> 0, sector_dir |-> 0]

\* faulty variant: the airport is not put in front of the task turnpoints
FullTpsNoAirport(task) == task["turnpoints"][1]

\* full_tps = [airport_tp] + [dict(tp) for tp in tps_in]
FullTps(task) == <<AirportTp(AptRaw(task))>> \o task["turnpoints"][1]

TpGet(tp, k, default) == IF k \in DOMAIN tp THEN tp[k] ELSE default

\* the thirteen lines of turnpoint i
TpLines(tp, i) ==
    << TPKV("TPName", i, tp["name"]),
       TPKV("TPPosX", i, tp["x"]),
       TPKV("TPPosY", i, tp["y"]),
       TPKV("TPPosZ", i, tp["z"]),
       TPKV("TPAirport", i, IF TpGet(tp, "is_airport", FALSE) THEN 1 ELSE 0),
       TPKV("TPSectorType", i, TpGet(tp, "sector_type", 0)),
       TPKV("TPSectorDirection", i, TpGet(tp, "sector_dir", 0)),
       TPKV("TPRadius", i, TpGet(tp, "radius_m", 3000)),
       TPKV("TPAngle", i, TpGet(tp, "angle_deg", 180)),
       TPKV("TPAltitude", i, 1500),
       TPKV("TPWidth", i, 0),
       TPKV("TPHeight", i, 10000),
       TPKV("TPAzimuth", i, 0) >>

RECURSIVE AllTpLines(_, _)
\* for i, tp in enumerate(full_tps), from index i on
AllTpLines(full_tps, i) ==
    IF i >= Len(full_tps) THEN <<>>
    ELSE TpLines(full_tps[i + 1], i) \o AllTpLines(full_tps, i + 1)

\* the exception that leaves build_fpl(task), "" if none does
BuildRaises(task) ==
    IF "turnpoints" \notin DOMAIN task THEN "KeyError"
    ELSE IF "airport_tp" \in DOMAIN task /\ task["airport_tp"] = <<>> THEN "TypeError"
    ELSE IF task["turnpoints"] = <<>> THEN "TypeError"
    ELSE IF "airport_tp" \notin DOMAIN task /\ task["turnpoints"][1] = <<>>
         THEN "IndexError"
    ELSE IF ~(TpKeys \subseteq DOMAIN AptRaw(task)) THEN "KeyError"
    ELSE IF \E i \in 1..Len(task["turnpoints"][1]) :
                ~(TpKeys \subseteq DOMAIN task["turnpoints"][1][i]) THEN "KeyError"
    ELSE IF GetOr(task, "weather", <<>>) = <<>> THEN "AttributeError"
    ELSE IF GetOr(GetOr(task, "weather", <<>>)[1], "wind_speed_kts", 0) = <<>>
         THEN "TypeError"
    ELSE IF GetOr(GetOr(task, "weather", <<>>)[1], "cloud_base_ft", 4921) = <<>>
         THEN "TypeError"
    ELSE IF GetOr(task, "start_type", airborne) = <<>> THEN "AttributeError"
    ELSE IF GetOr(task, "penalties", <<>>) = <<>> THEN "AttributeError"
    ELSE ""

\* the lines build_fpl(task) joins, seed being what random.randint returned
BuildLines(task, seed) ==
    LET full_tps == FullTps(task)
        wx       == GetOr(task, "weather", <<>>)[1]
        pen      == GetOr(task, "penalties", <<>>)[1]
        airspace_penalty ==
            IF Get(task, "_ignore_airspace") \notin {<<>>, <<FALSE>>} THEN <<0>>
            ELSE GetOr(pen, "airspace", 100)
    IN
    << Text("[Version]"),
       KV("Condor version", GetOr(task, "condor_version", 3100)),
       Text(""),
       Text("[Task]"),
       KV("Landscape", GetOr(task, "landscape", Centro_Italia3)),
       KV("Count", Len(full_tps)) >>
    \o AllTpLines(full_tps, 0) \o
    << Text("PZCount=0"),
       Text("DisabledAirspaces="),
       Text(""),
       Text("[Weather]"),
       Text("RandomizeWeatherOnEachFlight=0"),
       Text("WZCount=1"),
       Text(""),
       Text("[WeatherZone0]"),
       Text("Name=Base"),
       Text("PointCount=0"),
       Text("MoveDir=0"),
       Text("MoveSpeed=0"),
       Text("BorderWidth=0"),
       KV("WindDir", GetOr(wx, "wind_dir_deg", 0)),
       KV("WindSpeed", kts_to_ms(GetOr(wx, "wind_speed_kts", 0)[1])),
       Text("WindUpperSpeed=0"),
       Text("WindDirVariation=1"),
       Text("WindSpeedVariation=1"),
       Text("WindTurbulence=2"),
       Text("ThermalsTemp=22"),
       Text("ThermalsTempVariation=1"),
       Text("ThermalsDew=10"),
       KV("ThermalsStrength", GetOr(wx, "thermal_strength", 2)),
       Text("ThermalsStrengthVariation=1"),
       KV("ThermalsInversionheight",
          cloud_base_to_inversion(GetOr(wx, "cloud_base_ft", 4921)[1])),
       KV("ThermalsOverdevelopment", GetOr(wx, "overdevelopment", 0)),
       Text("ThermalsWidth=2"),
       Text("ThermalsWidthVariation=1"),
       KV("ThermalsActivity", GetOr(wx, "thermal_activity", 3)),
       Text("ThermalsActivityVariation=1"),
       Text("ThermalsTurbulence=2"),
       Text("ThermalsFlatsActivity=2"),
       Text("ThermalsStreeting=0"),
       Text("ThermalsBugs=2"),
       Text("WavesStability=5"),
       Text("WavesMoisture=8"),
       Text("HighCloudsCoverage=2"),
       Text(""),
       Text("[Plane]"),
       Text("Class=All"),
       KV("Name", GetOr(task, "aircraft", "StdCirrus")),
       KV("Skin", GetOr(task, "skin", "Default")),
       Text("Water=0"),
       Text("FixedMass=0"),
       Text("CGBias=0"),
       Text("Seat=1"),
       Text("Bugwipers=0"),
       Text(""),
       Text("[GameOptions]"),
       KV("TaskDate", date_to_excel(OrStr(Get(task, "task_date"), DefaultDate))),
       KV("StartTime", OrNum(Get(task, "start_time"), 12)),
       KV("StartTimeWindow", <<OrNum(Get(task, "start_time_window"), 0), 60>>),
       KV("RaceStartDelay", <<OrNum(Get(task, "race_start_delay_mins"), 5), 60>>),
       Text("AATTime=3"),
       Text("IconsVisibleRange=20"),
       Text("ThermalHelpersRange=0"),
       Text("TurnpointHelpersRange=0"),
       Text("AAT=0"),
       Text("AllowBugwipers=1"),
       Text("AllowPDA=1"),
       Text("AllowRealtimeScoring=1"),
       Text("AllowExternalView=1"),
       Text("AllowPadlockView=1"),
       Text("AllowSmoke=1"),
       Text("AllowPlaneRecovery=0"),
       Text("AllowHeightRecovery=0"),
       Text("AllowMidairCollisionRecovery=0"),
       Text("AllowInstructorActions=0"),
       KV("PenaltyCloudFlying", GetOr(pen, "cloud_flying", 100)),
       KV("PenaltyPlaneRecovery", GetOr(pen, "plane_recovery", 100)),
       KV("PenaltyHeightRecovery", GetOr(pen, "height_recovery", 100)),
       Text("PenaltyWrongWindowEnterance=100"),
       Text("PenaltyWindowCollision=100"),
       KV("PenaltyAirspaceEnterance", airspace_penalty),
       Text("PenaltyPenaltyZoneEnterance=100"),
       Text("PenaltyThermalHelpers=0"),
       KV("MaxStartGroundSpeed",
          kts_to_kmh_rounded(OrNum(Get(task, "max_start_speed_kts"), 81))),
       Text("PenaltyStartSpeed=1"),
       Text("PenaltyHighStart=1"),
       Text("PenaltyLowFinish=1"),
       KV("RandSeed", seed),
       KV("StartType", start_type_code(GetOr(task, "start_type", airborne)[1])),
       KV("StartHeight", OrNum(Get(task, "start_height_m"), 1000)),
       Text("BreakProb=0"),
       Text("RopeLength=50"),
       Text("MaxWingLoading=0"),
       Text("MaxTeams=0"),
       Text("AcroFlight=0"),
       Text(""),
       Text("[Description]"),
       KV("Text", GetOr(task, "description", <<>>)),
       Text("") >>

\* the characters that end the lines
CR == [ch |-> "CR"]
LF == [ch |-> "LF"]

\* "\r\n".join(lines): the text as the sequence of its lines and of the
\* carriage returns and line feeds between them
JoinCRLF(lines) ==
    [k \in 1..(IF lines = <<>> THEN 0 ELSE 3 * Len(lines) - 2) |->
        IF k % 3 = 1 THEN lines[(k + 2) \div 3]
        ELSE IF k % 3 = 2 THEN CR ELSE LF]

\* faulty variant: the airfield is inserted into the caller's list in place
\* (tps_in.insert(0, airport_tp)) instead of building a new list
TaskAfterPrepend(task) ==
    IF BuildRaises(task) # "" THEN task
    ELSE [task EXCEPT !["turnpoints"] = <<FullTps(task)>>]

\* the task dict of the caller once build_fpl has returned or raised: the
\* function reads it with task[...] and task.get, copies the airfield source
\* and every turnpoint with dict(...) and builds full_tps as a new list, so
\* nothing is assigned into the dict or into one of its turnpoints
TaskAfterBuild(task) == task

\* faulty variant: the lines are joined last to first
build_fpl_reversed(task, seed) ==
    IF BuildRaises(task) # "" THEN [raised |-> BuildRaises(task), content |-> <<>>]
    ELSE [raised |-> "",
          content |-> JoinCRLF([j \in 1..Len(BuildLines(task, seed)) |->
              BuildLines(task, seed)[Len(BuildLines(task, seed)) + 1 - j]])]

\* build_fpl(task): the exception raised ("": none) and the string returned
build_fpl(task, seed) ==
    IF BuildRaises(task) # "" THEN [raised |-> BuildRaises(task), content |-> <<>>]
    ELSE [raised |-> "", content |-> JoinCRLF(BuildLines(task, seed))]

RECURSIVE WriteNewlineCRLF(_)
\* f.write(content) on a file opened with newline="\r\n": the text layer
\* writes "\r\n" for every "\n" of the string and everything else as it is
\* (the string is translated half by half)
WriteNewlineCRLF(content) ==
    IF content = <<>> THEN <<>>
    ELSE IF Len(content) = 1
         THEN IF content[1] = LF THEN <<CR, LF>> ELSE content
    ELSE LET h == Len(content) \div 2
         IN  WriteNewlineCRLF(SubSeq(content, 1, h))
             \o WriteNewlineCRLF(SubSeq(content, h + 1, Len(content)))

(***************************************************************************)
(* The inputs of the generator: the lookup directories, the dicts          *)
(* parse_task_pdf returns, the task JSON files, the answers typed in       *)
(* interactive mode.                                                       *)
(***************************************************************************)
MaxTps == 3

\* the directory listing holding the files fs
Corpus(fs) == [s \in 1..MaxFiles |-> IF s <= Len(fs) THEN fs[s] ELSE NoFile]

\* bucket "ab": "abcd" (canonical Abcd), "abcy", "a d"
CorpusGood ==
    << FileOf(dotfpl, TRUE, <<A_b>>, <<2>>, <<GoodRow(Abcd), GoodRow(abcy)>>),
       FileOf(dotFPL, TRUE, <<a_B>>, <<2>>, <<GoodRow(abcd), GoodRow(a_d)>> ) >>

\* the second file has a coordinate line float() raises on
CorpusBadFloat ==
    << FileOf(dotfpl, TRUE, <<A_b>>, <<2>>, <<GoodRow(Abcd), GoodRow(abcy)>>),
       FileOf(dotfpl, TRUE, <<ab>>,  <<2>>, <<GoodRow(abcd), Row(<<abcy>>, Ok, Ok, Bad)>>) >>

CorpusPool == {Corpus(CorpusGood), Corpus(CorpusBadFloat)}

\* the seeds random.randint(0, 2147483647) may return
SeedPool == {0, 2147483647}

\* a turnpoint dict of _parse_turnpoints, i-th of the table
PdfTp(name, i) ==
    [name |-> name, lat |-> 40 + i, lon |-> 10 + i, radius_m |-> 5000 + i,
     angle_deg |-> 180, sector_type |-> 0, sector_dir |-> 0]

PdfWeather ==
    [wind_dir_deg |-> <<235>>, wind_speed_kts |-> <<16>>, cloud_base_ft |-> <<4921>>,
     overdevelopment |-> <<0>>, thermal_strength |-> <<2>>, thermal_activity |-> <<3>>]

\* the dict parse_task_pdf returns for a briefing sheet with this landscape,
\* launch airfield and turnpoint table
ParsedPdf(landscape, airport_name, names) ==
    [description |-> <<"SGC Spring 2026 Race 1">>,
     landscape |-> <<landscape>>,
     task_date |-> <<<<2026, 3, 14>>>>,
     start_time |-> <<13>>,
     condor_version |-> <<3100>>,
     start_time_window |-> <<5>>,
     race_start_delay_mins |-> <<5>>,
     aircraft |-> <<"DuoDiscusXL">>,
     skin |-> <<"Default">>,
     start_type |-> <<airborne>>,
     airport_name |-> <<airport_name>>,
     start_height_m |-> <<1000>>,
     min_finish_height_m |-> <<0>>,
     max_start_speed_kts |-> <<81>>,
     _ignore_airspace |-> <<FALSE>>,
     weather |-> <<PdfWeather>>,
     turnpoints |-> <<[i \in 1..Len(names) |-> PdfTp(names[i], i)]>>]

\* Abcd is in the index, abcx has a close match only, zz has none
PdfNames == {Abcd, abcx, zz}

SeqsUpTo(S, n) == UNION {[1..k -> S] : k \in 0..n}

PdfPool ==
    { ParsedPdf(l, a, ns) :
        l \in {a_B, zz}, a \in {<<>>, abcy, zz}, ns \in SeqsUpTo(PdfNames, MaxTps) }

\* the turnpoint dicts of a task JSON file: with the four mandatory keys only,
\* with a sector of its own, without "z"
TpShapes == {"plain", "sector", "noz"}

NamePool == <<Abcd, abcy, abcx, a_d>>

\* the i-th turnpoint dict of a file; "flagged": with an "is_airport" key
\* of its own
JsonTp(shape, i) ==
    LET plain == [name |-> NamePool[(i % 4) + 1],
                  x |-> 1000 + 10 * i + 1, y |-> 1000 + 10 * i + 2,
                  z |-> 1000 + 10 * i + 3]
    IN  IF shape = "plain" THEN plain
        ELSE IF shape = "noz" THEN [k \in {"name", "x", "y"} |-> plain[k]]
        ELSE IF shape = "flagged"
        THEN [name |-> plain.name, x |-> plain.x, y |-> plain.y, z |-> plain.z,
              is_airport |-> TRUE]
        ELSE [name |-> plain.name, x |-> plain.x, y |-> plain.y, z |-> plain.z,
              radius_m |-> 500 + i, angle_deg |-> 45 + i,
              sector_type |-> 1, sector_dir |-> 2]

JsonAirport(shape) ==
    LET plain == [name |-> zz, x |-> 901, y |-> 902, z |-> 903]
    IN  IF shape = "plain" THEN plain
        ELSE IF shape = "noz" THEN [k \in {"name", "x", "y"} |-> plain[k]]
        ELSE [name |-> plain.name, x |-> plain.x, y |-> plain.y, z |-> plain.z,
              radius_m |-> 1234, angle_deg |-> 33, sector_type |-> 1,
              sector_dir |-> 2, is_airport |-> FALSE]

\* the keys of the template main() prints, but for airport_tp and turnpoints
JsonBase ==
    [landscape |-> <<Centro_Italia3>>,
     condor_version |-> <<3100>>,
     task_date |-> <<<<2026, 6, 21>>>>,
     start_time |-> <<13>>,
     start_time_window |-> <<5>>,
     race_start_delay_mins |-> <<5>>,
     aircraft |-> <<"Blanik">>,
     skin |-> <<"Default">>,
     start_type |-> <<airborne>>,
     start_height_m |-> <<1000>>,
     min_finish_height_m |-> <<0>>,
     max_start_speed_kts |-> <<81>>,
     weather |-> <<[wind_dir_deg |-> <<90>>, wind_speed_kts |-> <<13>>,
                    cloud_base_ft |-> <<4921>>, overdevelopment |-> <<0>>,
                    thermal_strength |-> <<2>>, thermal_activity |-> <<3>>]>>,
     penalties |-> <<[cloud_flying |-> <<100>>, plane_recovery |-> <<100>>,
                      height_recovery |-> <<100>>, airspace |-> <<100>>]>>,
     description |-> <<"SGC Spring 2026 Race 1">>]

\* what the file says of "turnpoints" and of "airport_tp": the key is absent,
\* it is null, or it has a value
KeyAbsent    == [has |-> FALSE, val |-> <<>>]
KeyNull      == [has |-> TRUE, val |-> <<>>]
KeyValue(v)  == [has |-> TRUE, val |-> <<v>>]

\* the object json.load returns
JsonTask(base, tps, apt) ==
    LET keys == DOMAIN base \cup (IF tps.has THEN {"turnpoints"} ELSE {})
                            \cup (IF apt.has THEN {"airport_tp"} ELSE {})
    IN  [k \in keys |-> IF k = "turnpoints" THEN tps.val
                        ELSE IF k = "airport_tp" THEN apt.val
                        ELSE base[k]]

\* the template with one field changed: a key left out, a key set to null,
\* an entry of "weather" or of "penalties" left out or null, a start height
\* of 0, other spellings of "start_type", "_ignore_airspace" with and without
\* a configured airspace penalty
JsonBaseVariants ==
    LET Without(d, k) == [j \in DOMAIN d \ {k} |-> d[j]]
        With(d, k, v) == [j \in DOMAIN d \cup {k} |-> IF j = k THEN v ELSE d[j]]
        wx    == JsonBase["weather"][1]
        pen   == JsonBase["penalties"][1]
        types == { <<"G", "A", "T", "E">>, <<"L", "i", "n", "e">>, gate, line,
                   tow, <<"T", "o", "w">>, <<"x", "x">>, <<>> }
        pens  == { <<>>, <<EmptyDict>>, <<Without(pen, "airspace")>>,
                   <<With(pen, "airspace", <<50>>)>>,
                   <<With(pen, "airspace", <<>>)>> }
    IN  {Without(JsonBase, k) : k \in DOMAIN JsonBase}
        \cup {With(JsonBase, k, <<>>) : k \in DOMAIN JsonBase}
        \cup {With(JsonBase, "weather", <<Without(wx, k)>>) : k \in DOMAIN wx}
        \cup {With(JsonBase, "weather", <<With(wx, k, <<>>)>>) : k \in DOMAIN wx}
        \cup {With(JsonBase, "penalties", <<Without(pen, k)>>) : k \in DOMAIN pen}
        \cup {With(JsonBase, "penalties", <<With(pen, k, <<>>)>>) : k \in DOMAIN pen}
        \cup {With(JsonBase, "start_height_m", <<0>>)}
        \cup {With(JsonBase, "start_type", <<st>>) : st \in types}
        \cup {With(JsonBase, "penalties", p) : p \in pens}
        \cup {With(With(JsonBase, "penalties", p), "_ignore_airspace", flag) :
                  p \in pens, flag \in {<<>>, <<FALSE>>, <<TRUE>>}}

JsonPool ==
    { JsonTask(base, tps, apt) :
        base \in {JsonBase, <<>>},
        tps \in {KeyAbsent, KeyNull} \cup
                { KeyValue([i \in 1..Len(shapes) |-> JsonTp(shapes[i], i)]) :
                    shapes \in SeqsUpTo(TpShapes, MaxTps) },
        apt \in {KeyAbsent, KeyNull} \cup
                { KeyValue(JsonAirport(shape)) : shape \in TpShapes } }
    \cup
    { JsonTask(base, KeyValue(<<JsonTp("plain", 1), JsonTp("plain", 2)>>), KeyAbsent) :
        base \in JsonBaseVariants }
    \cup
    { JsonTask(JsonBase, KeyValue(tps), apt) :
        tps \in { <<JsonTp("flagged", 1)>>,
                  <<JsonTp("flagged", 1), JsonTp("plain", 2)>>,
                  <<JsonTp("plain", 1), JsonTp("flagged", 2)>> },
        apt \in {KeyAbsent, KeyValue(JsonAirport("plain"))} }

\* what is typed at the "Name:" prompts of the turnpoint loop: a name or blank
MaxPrompts == 4
ScriptPool == SeqsUpTo({"name", "blank"}, MaxPrompts)

(***************************************************************************)
(* condor_fpl_gen.py: the PDF pipeline and the modes of main().            *)
(***************************************************************************)
\* the message _resolve_tp prints to stderr before sys.exit(1)
Unresolved(kind, name, landscape) ==
    [msg |-> "cannot find coordinates", kind |-> kind, name |-> name,
     landscape |-> landscape]

\* what _resolve_tp does with r, the result of db.resolve
CoordsOrExit(r, landscape, name, kind) ==
    [coords |-> r.coords, notice |-> r.notice, exited |-> r.coords = <<>>,
     err |-> IF r.coords = <<>> THEN <<Unresolved(kind, name, landscape)>>
             ELSE <<>>]

\* _resolve_tp(db, landscape, name, kind): exited says sys.exit(1) was called
_resolve_tp(d, landscape, name, kind) ==
    CoordsOrExit(resolve(d, landscape, name), landscape, name, kind)

\* {**tp, "x": x, "y": y, "z": z}
WithCoords(tp, coords) ==
    Put(Put(Put(tp, "x", coords[1]), "y", coords[2]), "z", coords[3])

RECURSIVE ResolveTps(_, _, _, _)
\* one turn of the loop, r being what _resolve_tp gave for the first of tps
ResolveNext(r, d, landscape, tps, resolved) ==
    IF r.exited THEN [resolved |-> resolved, err |-> r.err]
    ELSE ResolveTps(d, landscape, Tail(tps),
                    Append(resolved, WithCoords(Head(tps), r.coords)))

\* the loop over task["turnpoints"]: the dicts resolved so far, and the
\* message of the name that stopped it
ResolveTps(d, landscape, tps, resolved) ==
    IF tps = <<>> THEN [resolved |-> resolved, err |-> <<>>]
    ELSE ResolveNext(_resolve_tp(d, landscape, Head(tps)["name"], "turnpoint"),
                     d, landscape, tps, resolved)

PdfResult(status, task, err) == [status |-> status, task |-> task, err |-> err]

\* pdf_to_task from the loop on, a being what _resolve_tp gave for the launch
\* airfield and t what the loop gave
TaskResolved(parsed, a, t) ==
    IF t.err # <<>> THEN PdfResult("exit", <<>>, t.err)
    ELSE PdfResult("ok",
                   <<Put(Put(parsed, "airport_tp",
                             <<[name |-> parsed["airport_name"][1], x |-> a.coords[1],
                                y |-> a.coords[2], z |-> a.coords[3]]>>),
                         "turnpoints", <<t.resolved>>)>>,
                   <<>>)

\* pdf_to_task from the resolution of the launch airfield on
AirportResolved(parsed, d, a) ==
    IF a.exited THEN PdfResult("exit", <<>>, a.err)
    ELSE TaskResolved(parsed, a,
                      ResolveTps(d, parsed["landscape"][1], parsed["turnpoints"][1], <<>>))

\* pdf_to_task from _load_database on, ld being what load_fpl_dir gave
DatabaseLoaded(parsed, ld) ==
    IF ld.raised THEN PdfResult("raised", <<>>, <<[msg |-> "ValueError"]>>)
    ELSE IF GetOr(parsed, "airport_name", <<>>) \in {<<>>, <<<<>>>>}
    THEN PdfResult("exit", <<>>, <<[msg |-> "no launch airfield"]>>)
    ELSE AirportResolved(parsed, ld.db,
                         _resolve_tp(ld.db, parsed["landscape"][1],
                                     parsed["airport_name"][1], "airport"))

\* pdf_to_task(pdf_path, fpl_dir), parsed being what parse_task_pdf returned;
\* status: "ok" (returns task), "exit" (sys.exit(1)), "raised" (an exception)
pdf_to_task(parsed, exists, files) ==
    IF Get(parsed, "turnpoints") \in {<<>>, <<<<>>>>}
    THEN PdfResult("exit", <<>>, <<[msg |-> "no turnpoints"]>>)
    ELSE DatabaseLoaded(parsed, load_fpl_dir(EmptyDict, exists, files))

\* generate_strategy(task) raises: float() or int() of a null weather value,
\* or the division by the length of a leg between two turnpoints at one place
StrategyRaises(task) ==
    LET wx  == GetOr(task, "weather", <<>>)[1]
        tps == GetOr(task, "turnpoints", <<>>)[1]
    IN  \/ \E k \in {"wind_dir_deg", "wind_speed_kts", "cloud_base_ft",
                     "thermal_strength", "thermal_activity"} :
               k \in DOMAIN wx /\ wx[k] = <<>>
        \/ \E i \in 1..(Len(tps) - 1) :
               tps[i + 1]["x"] = tps[i]["x"] /\ tps[i + 1]["y"] = tps[i]["y"]

RunResult(mode, status, input, task, content, out, err) ==
    [mode |-> mode, status |-> status, input |-> input, task |-> task,
     after |-> IF task = <<>> THEN <<>> ELSE <<TaskAfterBuild(task[1])>>,
     content |-> content, out |-> out, err |-> err]

\* content = build_fpl(task); open(out_path, "w", newline="\r\n").write(content);
\* the summary and print(generate_strategy(task))
BuildAndWrite(mode, input, task, seed) ==
    LET b == build_fpl(task, seed)
    IN  IF b.raised # ""
        THEN RunResult(mode, "raised", input, <<task>>, <<>>, <<>>, <<[msg |-> b.raised]>>)
        ELSE RunResult(mode, IF StrategyRaises(task) THEN "raised" ELSE "ok",
                       input, <<task>>, <<b.content>>,
                       <<WriteNewlineCRLF(b.content)>>, <<>>)

\* main() with --pdf from the return of pdf_to_task on, p being what it gave
PdfMode(parsed, p, seed) ==
    IF p.status # "ok"
    THEN RunResult("pdf", p.status, <<parsed>>, <<>>, <<>>, <<>>, p.err)
    ELSE BuildAndWrite("pdf", <<parsed>>, p.task[1], seed)

\* main() with --pdf
RunPdf(parsed, seed) ==
    /\ ~gui.open /\ run = NoRun
    /\ run' = PdfMode(parsed, pdf_to_task(parsed, dirExists, dir), seed)
    /\ UNCHANGED <<dirExists, dir, db, loads, call, gui>>

\* main() with --task
RunJson(task, seed) ==
    /\ ~gui.open /\ run = NoRun
    /\ run' = BuildAndWrite("json", <<task>>, task, seed)
    /\ UNCHANGED <<dirExists, dir, db, loads, call, gui>>

\* the dict the turnpoint loop appends for the i-th name typed (0-based)
TypedTp(i) ==
    [name |-> NamePool[(i % 4) + 1], x |-> 2000 + 10 * i + 1, y |-> 2000 + 10 * i + 2,
     z |-> 2000 + 10 * i + 3, radius_m |-> 3000, angle_deg |-> 180,
     sector_type |-> 0, sector_dir |-> 0]

RECURSIVE TurnpointLoop(_, _)
\* the while True loop of interactive_mode over what is typed at the name
\* prompts: <<tps>> when a blank name ends it, <<>> when the input ends first
TurnpointLoop(script, tps) ==
    IF script = <<>> THEN <<>>
    ELSE IF Head(script) = "blank" /\ Len(tps) >= 2 THEN <<tps>>
    ELSE IF Head(script) = "blank" THEN TurnpointLoop(Tail(script), tps)
    ELSE TurnpointLoop(Tail(script), Append(tps, TypedTp(Len(tps))))

\* the task interactive_mode builds when every other prompt is answered with
\* Enter and the airfield is typed in
InteractiveTask(tps) ==
    [landscape |-> <<Centro_Italia3>>,
     task_date |-> <<<<2026, 6, 21>>>>,
     start_time |-> <<13>>,
     start_time_window |-> <<5>>,
     race_start_delay_mins |-> <<5>>,
     aircraft |-> <<"Blanik">>,
     start_type |-> <<airborne>>,
     start_height_m |-> <<1000>>,
     max_start_speed_kts |-> <<81>>,
     weather |-> <<[wind_dir_deg |-> <<90>>, wind_speed_kts |-> <<13>>,
                    cloud_base_ft |-> <<4921>>, overdevelopment |-> <<0>>,
                    thermal_strength |-> <<2>>, thermal_activity |-> <<3>>]>>,
     airport_tp |-> <<[name |-> zz, x |-> 901, y |-> 902, z |-> 903]>>,
     turnpoints |-> <<tps>>,
     description |-> <<"">>]

\* main() with --interactive
RunInteractive(script, seed) ==
    /\ ~gui.open /\ run = NoRun
    /\ LET t == TurnpointLoop(script, <<>>)
       IN  run' = IF t = <<>>
                  THEN RunResult("interactive", "raised", <<script>>, <<>>, <<>>, <<>>,
                                 <<[msg |-> "EOFError"]>>)
                  ELSE BuildAndWrite("interactive", <<script>>, InteractiveTask(t[1]), seed)
    /\ UNCHANGED <<dirExists, dir, db, loads, call, gui>>

\* main() with --template: the template is printed, no file is written
RunTemplate ==
    /\ ~gui.open /\ run = NoRun
    /\ run' = RunResult("template", "ok", <<>>, <<>>, <<>>, <<>>, <<>>)
    /\ UNCHANGED <<dirExists, dir, db, loads, call, gui>>

\* main() without a mode: parser.print_help(); sys.exit(1)
RunHelp ==
    /\ ~gui.open /\ run = NoRun
    /\ run' = RunResult("help", "exit", <<>>, <<>>, <<>>, <<>>, <<>>)
    /\ UNCHANGED <<dirExists, dir, db, loads, call, gui>>

\* the process has ended; the next command starts a new one
ProcessEnd ==
    /\ run # NoRun
    /\ run' = NoRun
    /\ UNCHANGED <<dirExists, dir, db, loads, call, gui>>

(***************************************************************************)
(* condor_fpl_gui.py.  gui.task is self._task, gui.gen the state of the    *)
(* Generate button, gui.workers the _load_worker threads that run,         *)
(* gui.events the callbacks they queued with self.after(0, ...), gui.out   *)
(* the file _on_generate wrote, gui.dialog the last message box.  The      *)
(* field latest of a thread or callback marks the ones of the load that    *)
(* was started last; the program does not hold it.                         *)
(***************************************************************************)
MaxInFlight == 2

\* the briefing sheets the user browses to: two that resolve, one with a name
\* the index cannot resolve, one with a leg of length zero
GuiPdfPool ==
    { ParsedPdf(a_B, abcy, <<Abcd, abcx>>),
      ParsedPdf(a_B, abcy, <<abcx, Abcd>>),
      ParsedPdf(a_B, abcy, <<Abcd, zz>>),
      ParsedPdf(a_B, abcy, <<Abcd, Abcd>>) }

OpenGui == [NoGui EXCEPT !.open = TRUE]

NotLatest(items) == [i \in 1..Len(items) |-> [items[i] EXCEPT !.latest = FALSE]]

\* _browse_pdf with a file chosen (the path goes into the entry self._pdf_path),
\* then _on_load
OnLoad(parsed) ==
    /\ gui.open
    /\ Len(gui.workers) + Len(gui.events) < MaxInFlight
    /\ gui' = IF ~dirExists
              THEN [gui EXCEPT !.pdf = <<parsed>>, !.dialog = "FPL Dir not found"]
              ELSE [gui EXCEPT !.pdf = <<parsed>>,
                               !.gen = "disabled",
                               !.task = <<>>,
                               !.workers = Append(NotLatest(gui.workers),
                                                  [pdf |-> parsed, latest |-> TRUE]),
                               !.events = NotLatest(gui.events)]
    /\ UNCHANGED <<dirExists, dir, db, loads, call, run>>

\* the callback _load_worker queues, p being what pdf_to_task gave
LoadEvent(w, p) ==
    IF p.status = "exit"
    THEN [kind |-> "error", task |-> <<>>, latest |-> w.latest,
          msg |-> "Could not resolve all turnpoints."]
    ELSE IF p.status = "raised"
    THEN [kind |-> "error", task |-> <<>>, latest |-> w.latest, msg |-> p.err[1].msg]
    ELSE IF StrategyRaises(p.task[1])
    THEN [kind |-> "error", task |-> <<>>, latest |-> w.latest,
          msg |-> "float division by zero"]
    ELSE [kind |-> "success", task |-> p.task, latest |-> w.latest, msg |-> ""]

\* the thread i runs _load_worker to its end
LoadWorker(i) ==
    /\ gui.open
    /\ i \in 1..Len(gui.workers)
    /\ gui' = [gui EXCEPT
                 !.workers = SubSeq(gui.workers, 1, i - 1)
                             \o SubSeq(gui.workers, i + 1, Len(gui.workers)),
                 !.events = Append(gui.events,
                                   LoadEvent(gui.workers[i],
                                             pdf_to_task(gui.workers[i].pdf,
                                                         dirExists, dir)))]
    /\ UNCHANGED <<dirExists, dir, db, loads, call, run>>

\* the main loop runs a queued _on_load_success
OnLoadSuccess ==
    /\ gui.open
    /\ gui.events # <<>> /\ Head(gui.events).kind = "success"
    /\ gui' = [gui EXCEPT !.task = Head(gui.events).task,
                          !.gen = "normal",
                          !.events = Tail(gui.events)]
    /\ UNCHANGED <<dirExists, dir, db, loads, call, run>>

\* the main loop runs a queued _on_load_error
OnLoadError ==
    /\ gui.open
    /\ gui.events # <<>> /\ Head(gui.events).kind = "error"
    /\ gui' = [gui EXCEPT !.dialog = "Load failed", !.events = Tail(gui.events)]
    /\ UNCHANGED <<dirExists, dir, db, loads, call, run>>

\* the Generate button is pressed: _on_generate
OnGenerate(seed) ==
    /\ gui.open
    /\ gui.gen = "normal"
    /\ gui' = IF gui.task = <<>> THEN [gui EXCEPT !.dialog = "No task"]
              ELSE LET b == build_fpl(gui.task[1], seed)
                   IN  IF b.raised # "" THEN [gui EXCEPT !.dialog = "Generate failed"]
                       ELSE [gui EXCEPT !.out = <<WriteNewlineCRLF(b.content)>>,
                                        !.dialog = "Success"]
    /\ UNCHANGED <<dirExists, dir, db, loads, call, run>>

(***************************************************************************)
(* The generator: a command-line process at a time, or the window.         *)
(***************************************************************************)
Init ==
    /\ dirExists \in BOOLEAN
    /\ dir \in CorpusPool
    /\ db = EmptyDict
    /\ loads = 0
    /\ call = NoCall
    /\ run = NoRun
    /\ gui \in {NoGui, OpenGui}

Next ==
    \/ \E parsed \in PdfPool, seed \in SeedPool : RunPdf(parsed, seed)
    \/ \E task \in JsonPool, seed \in SeedPool : RunJson(task, seed)
    \/ \E script \in ScriptPool, seed \in SeedPool : RunInteractive(script, seed)
    \/ RunTemplate
    \/ RunHelp
    \/ ProcessEnd
    \/ \E parsed \in GuiPdfPool : OnLoad(parsed)
    \/ \E i \in 1..MaxInFlight : LoadWorker(i)
    \/ OnLoadSuccess
    \/ OnLoadError
    \/ \E seed \in SeedPool : OnGenerate(seed)

Spec == Init /\ [][Next]_vars

(***************************************************************************)
(* Properties of the turnpoint index (checked under SpecDb and SpecQuery). *)
(***************************************************************************)
HasKey(d, lk, nk) == lk \in DOMAIN d /\ nk \in DOMAIN d[lk]

\* the file in slot s is a flight plan whose parse raises
RaisesAt(files, s) ==
    files[s] # NoFile /\ IsFplName(files[s].ext) /\ _parse_fpl(files[s], s).raised

\* the rows a load of the directory reads and offers to the index, as
\* <<slot, position in the parsed list>>: the rows of the flight plans that
\* name a landscape, up to the first file whose parse raises
Defs(files) ==
    {e \in (1..Len(files)) \X (1..3) :
        /\ files[e[1]] # NoFile
        /\ IsFplName(files[e[1]].ext)
        /\ \A t \in 1..e[1] : ~RaisesAt(files, t)
        /\ LET p == _parse_fpl(files[e[1]], e[1])
           IN  p.landscape # <<>> /\ p.landscape[1] # <<>> /\ e[2] <= Len(p.tps)}

DefTp(files, e) == _parse_fpl(files[e[1]], e[1]).tps[e[2]]
DefLk(files, e) == _norm_landscape(Strip(files[e[1]].landscape[1]))
DefNk(files, e) == _norm_name(DefTp(files, e).name)

SameKey(files, e1, e2) ==
    DefLk(files, e1) = DefLk(files, e2) /\ DefNk(files, e1) = DefNk(files, e2)

\* e1 is scanned before e2
ScannedBefore(e1, e2) == e1[1] < e2[1] \/ (e1[1] = e2[1] /\ e1[2] < e2[2])

\* the first row of this load that defines the key of e
FirstDef(files, e) ==
    CHOOSE f \in Defs(files) :
        /\ SameKey(files, e, f)
        /\ \A g \in Defs(files) : SameKey(files, e, g) => (g = f \/ ScannedBefore(f, g))

\* C1: first-write-wins.  After every load, for every (landscape, name) a
\* scanned file defines, resolve returns the coordinates of the entry that was
\* inserted first: the one an earlier load call inserted if there is one, else
\* the one of the earliest scanned row of this load that defines the key.
C1_FirstWriteWins ==
    call.op = "load_fpl_dir" =>
        \A e \in Defs(dir) :
            LET lk    == DefLk(dir, e)
                nk    == DefNk(dir, e)
                first == DefTp(dir, FirstDef(dir, e))
            IN  resolve(db, dir[e[1]].landscape[1], DefTp(dir, e).name).coords
                  = IF HasKey(call.before, lk, nk)
                    THEN Coords(call.before[lk][nk])
                    ELSE <<first.x, first.y, first.z>>

\* C1 witness: a load has scanned two files that define the same key, the file
\* scanned second had been loaded by an earlier call, and its coordinates are
\* the ones resolve returns
C1_Witness ==
    /\ call.op = "load_fpl_dir"
    /\ \E e1 \in Defs(dir), e2 \in Defs(dir) :
          /\ e1[1] < e2[1]
          /\ SameKey(dir, e1, e2)
          /\ HasKey(call.before, DefLk(dir, e2), DefNk(dir, e2))
          /\ resolve(db, dir[e1[1]].landscape[1], DefTp(dir, e1).name).coords
               = <<DefTp(dir, e2).x, DefTp(dir, e2).y, DefTp(dir, e2).z>>

\* C2 (as claimed): a second load_fpl_dir on the unchanged directory returns 0
\* and leaves count and resolve unchanged for every landscape and name.
C2_LoadIdempotent ==
    (call.op = "load_fpl_dir" /\ loads >= 2) =>
        /\ call.ret = <<0>>
        /\ \A l \in QueryLandscapes :
              /\ count(db, l) = count(call.before, l)
              /\ \A n \in QueryNames : resolve(db, l, n) = resolve(call.before, l, n)

\* C3: exact match takes priority.  Whenever the normalized requested name is a
\* key of the landscape's bucket, resolve returns that entry's coordinates (the
\* coordinates of every entry are its own) and prints no fuzzy notice.
C3_ExactBeforeFuzzy ==
    call.op = "resolve" =>
        LET lk == _norm_landscape(call.landscape)
            nk == _norm_name(call.name)
        IN  HasKey(db, lk, nk) =>
               call.ret = Coords(db[lk][nk]) /\ call.notice = <<>>

\* C3 witness: an exact hit in a bucket that also holds another key at or
\* above the cutoff
C3_Witness ==
    /\ call.op = "resolve"
    /\ LET lk == _norm_landscape(call.landscape)
           nk == _norm_name(call.name)
       IN  /\ HasKey(db, lk, nk)
           /\ \E k \in DOMAIN db[lk] \ {nk} :
                 AtLeastCutoff(RatioMatches(k, nk), k, nk)
           /\ call.ret = Coords(db[lk][nk])

\* the similarity ratio of key k to the word w is at least 0.75
Similar(k, w) == AtLeastCutoff(RatioMatches(k, w), k, w)

\* the similarity ratio of key k to the word w is exactly 0.75
AtCutoff(k, w) ==
    2 * RatioMatches(k, w) * CutoffDen = CutoffNum * (Len(k) + Len(w))

NoCommonChar(k, w) == \A i \in 1..Len(k), j \in 1..Len(w) : k[i] # w[j]

\* C4: resolve returns None exactly when the landscape has no bucket, or the
\* bucket holds neither the normalized name nor a key whose similarity ratio
\* to it is at least 0.75; a request that shares no character with any known
\* name is not found.
C4_NotFoundExactly ==
    call.op = "resolve" =>
        LET lk == _norm_landscape(call.landscape)
            nk == _norm_name(call.name)
        IN  /\ call.ret = <<>> <=>
                  \/ lk \notin DOMAIN db
                  \/ /\ nk \notin DOMAIN db[lk]
                     /\ \A k \in DOMAIN db[lk] : ~Similar(k, nk)
            /\ (/\ lk \in DOMAIN db
                /\ nk # <<>>
                /\ \A k \in DOMAIN db[lk] : NoCommonChar(k, nk)) => call.ret = <<>>

\* C4 witness: a request answered by a key whose similarity is exactly 0.75,
\* no key of the bucket being closer
C4_Witness ==
    /\ call.op = "resolve"
    /\ call.ret # <<>>
    /\ LET lk == _norm_landscape(call.landscape)
           nk == _norm_name(call.name)
       IN  /\ lk \in DOMAIN db
           /\ nk \notin DOMAIN db[lk]
           /\ \E k \in DOMAIN db[lk] : AtCutoff(k, nk) /\ call.ret = Coords(db[lk][k])
           /\ \A k \in DOMAIN db[lk] : Similar(k, nk) => AtCutoff(k, nk)

(***************************************************************************)
(* Properties of the generator (checked under Spec).                       *)
(***************************************************************************)
\* the lines of a text, without the characters that end them
FplLines(content) == SelectSeq(content, LAMBDA t : t \notin {CR, LF})

\* the lines key<idx>=...
IndexedLines(lines) == SelectSeq(lines, LAMBDA l : l.idx # -1)

\* the values the lines key<idx>= of the text give
LineVals(lines, k, i) ==
    {lines[j].val : j \in {j \in 1..Len(lines) : lines[j].key = k /\ lines[j].idx = i}}

TpLineKeys ==
    <<"TPName", "TPPosX", "TPPosY", "TPPosZ", "TPAirport", "TPSectorType",
      "TPSectorDirection", "TPRadius", "TPAngle", "TPAltitude", "TPWidth",
      "TPHeight", "TPAzimuth">>

\* build_fpl returned a text in the run
Built == run.content # <<>>

BuiltLines == FplLines(run.content[1])
BuiltTask  == run.task[1]
BuiltTps   == BuiltTask["turnpoints"][1]

\* the index the PDF pipeline resolves against
PipelineIndex == load_fpl_dir(EmptyDict, dirExists, dir)

\* the names the PDF pipeline asks the index for, launch airfield first
RequestedNames(parsed) ==
    <<parsed["airport_name"][1]>>
    \o [i \in 1..Len(parsed["turnpoints"][1]) |-> parsed["turnpoints"][1][i]["name"]]

\* the pipeline reaches the resolution of the names and one of them is not found
ResolutionFails(parsed) ==
    /\ parsed["turnpoints"] \notin {<<>>, <<<<>>>>}
    /\ parsed["airport_name"] \notin {<<>>, <<<<>>>>}
    /\ ~PipelineIndex.raised
    /\ \E i \in 1..Len(RequestedNames(parsed)) :
           resolve(PipelineIndex.db, parsed["landscape"][1],
                   RequestedNames(parsed)[i]).coords = <<>>

\* C5: resolution failure is fatal and produces no output.  When the PDF
\* pipeline asks for a launch airfield or turnpoint name the index cannot
\* resolve, the run exits with an error that names the landscape and the
\* requested name, build_fpl is not reached and no file is written; in the
\* window, while the failure of the load started last waits to be reported,
\* the held task is empty and Generate is disabled.
C5_ResolutionFailureFatal ==
    /\ (run.mode = "pdf" /\ ResolutionFails(run.input[1])) =>
           /\ run.status = "exit"
           /\ run.task = <<>> /\ run.content = <<>> /\ run.out = <<>>
           /\ \E i \in 1..Len(RequestedNames(run.input[1])), j \in 1..Len(run.err) :
                  /\ resolve(PipelineIndex.db, run.input[1]["landscape"][1],
                             RequestedNames(run.input[1])[i]).coords = <<>>
                  /\ run.err[j].msg = "cannot find coordinates"
                  /\ run.err[j].name = RequestedNames(run.input[1])[i]
                  /\ run.err[j].landscape = run.input[1]["landscape"][1]
    /\ (\E j \in 1..Len(gui.events) :
            /\ gui.events[j].latest
            /\ gui.events[j].kind = "error"
            /\ gui.events[j].msg = "Could not resolve all turnpoints.") =>
           gui.task = <<>> /\ gui.gen = "disabled"

\* the number of task turnpoints of what a run was given: the list of the
\* parsed sheet or of the JSON object (0 when absent or null), the names typed
GivenTurnpoints ==
    IF run.mode = "interactive"
    THEN Cardinality({i \in 1..Len(run.input[1]) : run.input[1][i] = "name"})
    ELSE IF Get(run.input[1], "turnpoints") = <<>> THEN 0
    ELSE Len(run.input[1]["turnpoints"][1])

\* C6: record completeness is enforced before output.  In PDF, JSON and
\* interactive mode a task whose turnpoint sequence is absent, empty or has
\* fewer than 2 entries is rejected as a fatal error and no file is written.
C6_CompletenessBeforeOutput ==
    (run.mode \in {"pdf", "json", "interactive"} /\ GivenTurnpoints < 2) =>
        run.status # "ok" /\ run.out = <<>>

\* every line of the file is followed by one CR LF pair (nothing follows the
\* last pair), no LF lacks a CR before it, no CR lacks an LF after it
CrLfTerminated(bytes) ==
    \A k \in 1..Len(bytes) :
        /\ bytes[k] = LF => k > 1 /\ bytes[k - 1] = CR
        /\ bytes[k] = CR => k < Len(bytes) /\ bytes[k + 1] = LF
        /\ bytes[k] \notin {CR, LF} =>
               \/ k = Len(bytes) /\ bytes[k] = Text("")
               \/ k + 2 <= Len(bytes) /\ bytes[k + 1] = CR /\ bytes[k + 2] = LF

\* C7: every line of a written file is terminated by exactly one CR LF pair
\* on every write path (the three command-line modes and Generate): no LF
\* without a CR before it, no CR without an LF after it, no CR CR LF.
C7_ExactlyOneCrLf ==
    /\ run.out # <<>> => CrLfTerminated(run.out[1])
    /\ gui.out # <<>> => CrLfTerminated(gui.out[1])

\* C8: for a task with N >= 1 turnpoints build_fpl emits Count=N+1 and exactly
\* N+1 turnpoint line groups, with the indices 0..N, each once, in order.
C8_CountAndGroups ==
    (Built /\ Len(BuiltTps) >= 1) =>
        LET n  == Len(BuiltTps)
            il == IndexedLines(BuiltLines)
            g  == Len(TpLineKeys)
        IN  /\ Cardinality({j \in 1..Len(BuiltLines) : BuiltLines[j].key = "Count"}) = 1
            /\ LineVals(BuiltLines, "Count", -1) = {<<n + 1>>}
            /\ Len(il) = g * (n + 1)
            /\ \A i \in 0..n, m \in 1..g :
                   il[g * i + m].key = TpLineKeys[m] /\ il[g * i + m].idx = i

\* a JSON task of three turnpoints was built
C8_Witness ==
    Built /\ run.mode = "json" /\ Len(BuiltTps) = 3 /\ run.status = "ok"

\* C9: without an explicit airport_tp the entry at index 0 has the name, x, y
\* and z of the first task turnpoint, radius 3000 and angle 90; the radius and
\* angle the first turnpoint carries are emitted unchanged at index 1.
C9_AirfieldCloned ==
    (Built /\ "airport_tp" \notin DOMAIN BuiltTask) =>
        LET first == BuiltTps[1]
        IN  /\ LineVals(BuiltLines, "TPName", 0) = {<<first["name"]>>}
            /\ LineVals(BuiltLines, "TPPosX", 0) = {<<first["x"]>>}
            /\ LineVals(BuiltLines, "TPPosY", 0) = {<<first["y"]>>}
            /\ LineVals(BuiltLines, "TPPosZ", 0) = {<<first["z"]>>}
            /\ LineVals(BuiltLines, "TPRadius", 0) = {<<3000>>}
            /\ LineVals(BuiltLines, "TPAngle", 0) = {<<90>>}
            /\ "radius_m" \in DOMAIN first =>
                   LineVals(BuiltLines, "TPRadius", 1) = {<<first["radius_m"]>>}
            /\ "angle_deg" \in DOMAIN first =>
                   LineVals(BuiltLines, "TPAngle", 1) = {<<first["angle_deg"]>>}

\* a task without airport_tp was built whose first turnpoint, of two or more,
\* has a radius and an angle of its own
C9_Witness ==
    /\ Built /\ "airport_tp" \notin DOMAIN BuiltTask
    /\ Len(BuiltTps) >= 2
    /\ "radius_m" \in DOMAIN BuiltTps[1] /\ BuiltTps[1]["radius_m"] # 3000
    /\ "angle_deg" \in DOMAIN BuiltTps[1] /\ BuiltTps[1]["angle_deg"] # 90

\* C10: the entry at index 0 always has radius 3000, angle 90, sector type 0
\* and sector direction 0, also when an explicit airport_tp carries radius_m,
\* angle_deg, sector_type or sector_dir; its name, x, y and z are copied.
C10_AirfieldFixedSector ==
    Built =>
        /\ LineVals(BuiltLines, "TPRadius", 0) = {<<3000>>}
        /\ LineVals(BuiltLines, "TPAngle", 0) = {<<90>>}
        /\ LineVals(BuiltLines, "TPSectorType", 0) = {<<0>>}
        /\ LineVals(BuiltLines, "TPSectorDirection", 0) = {<<0>>}
        /\ "airport_tp" \in DOMAIN BuiltTask =>
               LET apt == BuiltTask["airport_tp"][1]
               IN  /\ LineVals(BuiltLines, "TPName", 0) = {<<apt["name"]>>}
                   /\ LineVals(BuiltLines, "TPPosX", 0) = {<<apt["x"]>>}
                   /\ LineVals(BuiltLines, "TPPosY", 0) = {<<apt["y"]>>}
                   /\ LineVals(BuiltLines, "TPPosZ", 0) = {<<apt["z"]>>}

\* a task was built whose airport_tp carries a sector of its own
C10_Witness ==
    /\ Built /\ "airport_tp" \in DOMAIN BuiltTask
    /\ {"radius_m", "angle_deg", "sector_type", "sector_dir"}
           \subseteq DOMAIN BuiltTask["airport_tp"][1]
    /\ BuiltTask["airport_tp"][1]["radius_m"] # 3000

\* C11: the is-airport flag is 1 only for index 0.  For every task build_fpl
\* builds a text for, the text has TPAirport0=1 and TPAirport<i>=0 for every
\* index i >= 1, whatever keys (an "is_airport" key included) the turnpoint
\* entries of the task carry.
C11_AirportFlagOnlyIndex0 ==
    Built =>
        /\ LineVals(BuiltLines, "TPAirport", 0) = {<<1>>}
        /\ \A i \in 1..Len(BuiltTps) :
               LineVals(BuiltLines, "TPAirport", i) = {<<0>>}

\* a dict without the key k
DropKey(d, k) == [j \in DOMAIN d \ {k} |-> d[j]]

\* the key is in the dict with a value other than null
Configured(d, k) == k \in DOMAIN d /\ d[k] # <<>>

\* the run handed a task to build_fpl
HasTask == run.task # <<>>

\* the penalties mapping the task configures, empty when there is none
ConfiguredPenalties ==
    IF Configured(BuiltTask, "penalties") THEN BuiltTask["penalties"][1]
    ELSE EmptyDict

\* the ignore-airspace flag of the task is set
IgnoreAirspaceSet == Get(BuiltTask, "_ignore_airspace") \notin {<<>>, <<FALSE>>}

\* C12: penalty derivation.  For every task that is otherwise well formed,
\* build_fpl emits PenaltyAirspaceEnterance=0 whenever the ignore-airspace
\* flag is set, whatever airspace penalty is configured; with the flag unset
\* it emits the configured airspace penalty, or 100 if none is configured;
\* PenaltyCloudFlying, PenaltyPlaneRecovery and PenaltyHeightRecovery are 100
\* whenever the task leaves them unset.
C12_PenaltyDerivation ==
    (HasTask /\ BuildRaises(DropKey(BuiltTask, "penalties")) = "") =>
        /\ Built
        /\ LineVals(BuiltLines, "PenaltyAirspaceEnterance", -1) =
               { << IF IgnoreAirspaceSet THEN <<0>>
                    ELSE IF Configured(ConfiguredPenalties, "airspace")
                         THEN ConfiguredPenalties["airspace"]
                    ELSE <<100>> >> }
        /\ ~Configured(ConfiguredPenalties, "cloud_flying") =>
               LineVals(BuiltLines, "PenaltyCloudFlying", -1) = {<<<<100>>>>}
        /\ ~Configured(ConfiguredPenalties, "plane_recovery") =>
               LineVals(BuiltLines, "PenaltyPlaneRecovery", -1) = {<<<<100>>>>}
        /\ ~Configured(ConfiguredPenalties, "height_recovery") =>
               LineVals(BuiltLines, "PenaltyHeightRecovery", -1) = {<<<<100>>>>}

\* the fields of a task with a documented default, but for the entries of
\* the weather and of the penalties mapping
DefaultedKeys ==
    {"condor_version", "skin", "description", "start_type", "task_date",
     "start_time", "start_height_m", "start_time_window",
     "race_start_delay_mins", "max_start_speed_kts", "penalties", "weather"}

\* the dict without those of the keys that are null
DropNulls(d, keys) ==
    [k \in {j \in DOMAIN d : ~(j \in keys /\ d[j] = <<>>)} |-> d[k]]

\* the task with every explicitly null defaulted field, and every null entry
\* of its weather and penalties mappings, left out instead
NullsAbsent(task) ==
    LET t == DropNulls(task, DefaultedKeys)
    IN  [k \in DOMAIN t |->
            IF k \in {"weather", "penalties"}
            THEN <<DropNulls(t[k][1], DOMAIN t[k][1])>>
            ELSE t[k]]

\* the seed the text of the run was built with
BuiltSeed == CHOOSE s \in SeedPool : LineVals(BuiltLines, "RandSeed", -1) = {<<s>>}

\* C13: absent and explicitly null are treated alike.  For a task in which
\* a field with a documented default (a top-level one, an entry of weather
\* or of penalties) is null, build_fpl does not fail and emits the lines it
\* emits for the task with those fields absent: the defaults, never None.
C13_NullLikeAbsent ==
    (HasTask /\ NullsAbsent(BuiltTask) # BuiltTask
             /\ BuildRaises(NullsAbsent(BuiltTask)) = "") =>
        /\ Built
        /\ BuiltLines = BuildLines(NullsAbsent(BuiltTask), BuiltSeed)

\* C14: a start height of 0 is a legitimate value.  A task with
\* start_height_m = 0 is emitted as StartHeight=0, any other configured
\* height as itself; 1000 is substituted only when start_height_m is absent
\* or null.
C14_StartHeightZero ==
    Built =>
        LineVals(BuiltLines, "StartHeight", -1) =
            { << IF Configured(BuiltTask, "start_height_m")
                 THEN BuiltTask["start_height_m"][1] ELSE 1000 >> }

\* C15: start-type resolution.  The StartType line of every text built is 0
\* for a start_type that reads "gate" whatever the case of its letters, 1 for
\* "line", 2 for "airborne", "tow" and any other string, and 2 when the task
\* has no start_type; the code is always one of 0, 1, 2.
C15_StartTypeCodes ==
    Built =>
        /\ \E c \in {0, 1, 2} : LineVals(BuiltLines, "StartType", -1) = {<<c>>}
        /\ LineVals(BuiltLines, "StartType", -1) =
               { << IF "start_type" \notin DOMAIN BuiltTask THEN 2
                    ELSE IF LowerStr(BuiltTask["start_type"][1]) = gate THEN 0
                    ELSE IF LowerStr(BuiltTask["start_type"][1]) = line THEN 1
                    ELSE 2 >> }

\* texts were built for "GATE" (code 0), for "Line" (code 1), for "Tow" and
\* for an unknown name (code 2), and for a task without start_type
C15_Witness ==
    /\ Built
    /\ \/ /\ Get(BuiltTask, "start_type") = << <<"G", "A", "T", "E">> >>
          /\ LineVals(BuiltLines, "StartType", -1) = {<<0>>}
       \/ /\ Get(BuiltTask, "start_type") = << <<"L", "i", "n", "e">> >>
          /\ LineVals(BuiltLines, "StartType", -1) = {<<1>>}

(***************************************************************************)
(* Properties of loading (checked under SpecDb).                           *)
(***************************************************************************)
Slots == 1..MaxFiles

\* the indices a count line of the corpus ranges over
RowIndices == 0..2

\* a file load_fpl_dir opens and finds both header lines in
Loadable(f) ==
    /\ f # NoFile
    /\ IsFplName(f.ext) /\ f.readable
    /\ f.landscape # <<>> /\ f.count # <<>>

\* index i of the file is within its count and lacks one of the four lines,
\* or has a coordinate line that is not a number
Malformed(f, i) ==
    /\ Loadable(f)
    /\ i < f.count[1]
    /\ \/ ~RowPresent(f, i)
       \/ Bad \in {f.rows[i + 1].x, f.rows[i + 1].y, f.rows[i + 1].z}

\* index i of the file is within its count and has the four lines, the
\* coordinates being numbers
WellFormed(f, i) ==
    /\ Loadable(f)
    /\ i < f.count[1]
    /\ RowPresent(f, i)
    /\ Bad \notin {f.rows[i + 1].x, f.rows[i + 1].y, f.rows[i + 1].z}

\* the (landscape key, name key) pairs of an index
Keys(d) == UNION {{<<lk, nk>> : nk \in DOMAIN d[lk]} : lk \in DOMAIN d}

\* the number of pairs absent from the index before the call and present after
NewKeys == Cardinality(Keys(db) \ Keys(call.before))

\* the index holds the well-formed row i of the file under its key
RowLoaded(f, i) ==
    HasKey(db, _norm_landscape(Strip(f.landscape[1])),
               _norm_name(Strip(f.rows[i + 1].name[1])))

\* C16: malformed turnpoint rows are skipped, not fatal.  When a load scans a
\* file with an index i in 0..count-1 that lacks one of name, X, Y, Z or has
\* an X, Y or Z that is not a number, the call does not raise, the row is
\* not inserted and not counted, and the well-formed rows of that file and of
\* the other files of the directory are loaded.
C16_MalformedRowsSkipped ==
    (call.op = "load_fpl_dir" /\ dirExists
        /\ \E s \in Slots, i \in RowIndices : Malformed(dir[s], i)) =>
        /\ ~call.raised
        /\ call.ret = <<NewKeys>>
        /\ \A s \in Slots, i \in RowIndices :
              /\ Malformed(dir[s], i) =>
                     \A k \in Keys(db) : db[k[1]][k[2]][2] # CoordX(s, i)
              /\ WellFormed(dir[s], i) => RowLoaded(dir[s], i)

\* a flight plan that can be read and lacks the landscape line or the count line
LacksHeader(f) ==
    /\ f # NoFile
    /\ IsFplName(f.ext) /\ f.readable
    /\ (f.landscape = <<>> \/ f.count = <<>>)

\* the directory without the files that lack a header line
WithoutHeaderless(files) ==
    [s \in DOMAIN files |-> IF LacksHeader(files[s]) THEN NoFile ELSE files[s]]

\* the call ended as r says: same index, same outcome, same number returned
SameOutcome(r) ==
    /\ db = r.db
    /\ call.raised = r.raised
    /\ ~r.raised => call.ret = <<r.added>>

\* C17: a file that lacks the landscape line or the count line is skipped as
\* a whole.  A load of a directory holding such files leaves the index, the
\* set of known landscape keys included, and the number returned exactly as
\* a load of the directory without these files does; when every flight plan
\* of the directory is such a file, the index is unchanged and 0 is returned.
C17_HeaderlessFileSkipped ==
    (call.op = "load_fpl_dir" /\ dirExists
        /\ \E s \in Slots : LacksHeader(dir[s])) =>
        /\ SameOutcome(load_fpl_dir(call.before, TRUE, WithoutHeaderless(dir)))
        /\ (\A s \in Slots : dir[s] = NoFile \/ LacksHeader(dir[s])) =>
               /\ known_landscapes(db) = known_landscapes(call.before)
               /\ db = call.before
               /\ call.ret = <<0>>

\* a file that cannot be opened
Unopenable(f) == f # NoFile /\ IsFplName(f.ext) /\ ~f.readable

\* a file that is not a flight plan: its name does not end in .fpl, or it
\* lacks a required header line
NotFlightPlan(f) == f # NoFile /\ (~IsFplName(f.ext) \/ LacksHeader(f))

\* C18: missing sources fail softly.  load_fpl_dir on a directory that does
\* not exist, or that holds only files that cannot be opened or are not
\* flight plans, returns 0, raises nothing and leaves the index unchanged;
\* with an unopenable file among readable ones (none of which has a row that
\* raises), every well-formed row of the readable ones is loaded.
C18_MissingSourcesFailSoftly ==
    call.op = "load_fpl_dir" =>
        /\ (\/ ~dirExists
            \/ \A s \in Slots : \/ dir[s] = NoFile
                                \/ Unopenable(dir[s])
                                \/ NotFlightPlan(dir[s])) =>
               /\ ~call.raised
               /\ call.ret = <<0>>
               /\ db = call.before
        /\ (/\ dirExists
            /\ \E s \in Slots : Unopenable(dir[s])
            /\ \A s \in Slots : ~RaisesAt(dir, s)) =>
               /\ ~call.raised
               /\ \A s \in Slots, i \in RowIndices :
                      WellFormed(dir[s], i) => RowLoaded(dir[s], i)

\* C19: load_fpl_dir returns exactly the number of (landscape key, name key)
\* pairs absent from the index before the call and present after it (so that
\* the values returned since the index was empty add up to its size).
C19_ReturnsNewlyInserted ==
    call.op = "load_fpl_dir" => call.ret = <<NewKeys>>

\* C20: index invariant under loading.  After every load (the only call
\* that changes the index) every entry of a bucket sits under the normalized
\* form of its canonical name, so that no two entries of a bucket have the
\* same normalized name; every entry present before the load is present
\* after it with the same stored (canonical name, x, y, z); the load raises
\* only when the parse of a file raises, never because of a duplicate.
C20_IndexInvariant ==
    call.op = "load_fpl_dir" =>
        /\ \A k \in Keys(db) : _norm_name(db[k[1]][k[2]][1]) = k[2]
        /\ \A k \in Keys(call.before) :
               /\ k \in Keys(db)
               /\ db[k[1]][k[2]] = call.before[k[1]][k[2]]
        /\ call.raised => \E s \in Slots : RaisesAt(dir, s)

\* a load that returned has scanned a row whose key an earlier call had
\* inserted from another row, and the entry is the one of the earlier call
C20_Witness ==
    /\ call.op = "load_fpl_dir"
    /\ ~call.raised
    /\ \E e \in Defs(dir) :
          /\ HasKey(call.before, DefLk(dir, e), DefNk(dir, e))
          /\ Entry(DefTp(dir, e)) # call.before[DefLk(dir, e)][DefNk(dir, e)]
          /\ db[DefLk(dir, e)][DefNk(dir, e)]
               = call.before[DefLk(dir, e)][DefNk(dir, e)]

(***************************************************************************)
(* Properties of the queries (checked under SpecQuery and SpecLoad).       *)
(***************************************************************************)
\* the keys a resolve call looks up
CallLk == _norm_landscape(call.landscape)
CallNk == _norm_name(call.name)

\* the call returned coordinates although the bucket lacks the normalized name
FuzzyHit ==
    /\ call.ret # <<>>
    /\ CallLk \in DOMAIN db
    /\ CallNk \notin DOMAIN db[CallLk]

\* C21: resolve prints the fuzzy notice if and only if the coordinates it
\* returns came from an approximate match; the notice names the requested
\* name as given and the canonical name of the entry whose coordinates are
\* returned; an exact hit and a not-found result print nothing.
C21_NoticeIffFuzzy ==
    call.op = "resolve" =>
        /\ call.notice # <<>> <=> FuzzyHit
        /\ FuzzyHit =>
               \E k \in DOMAIN db[CallLk] :
                   /\ call.ret = Coords(db[CallLk][k])
                   /\ call.notice = <<call.name, db[CallLk][k][1]>>

\* a fuzzy hit whose notice names a canonical name that differs from its key
C21_Witness ==
    /\ call.op = "resolve"
    /\ FuzzyHit
    /\ call.notice # <<>>
    /\ call.notice[2] # CallNk

\* the identifier without its underscores and spaces
WithoutSeparators(l) == SelectSeq(l, LAMBDA c : c \notin {"_", " "})

\* two landscape identifiers differ only in letter case, underscores or spaces
SameLandscape(l1, l2) ==
    LowerStr(WithoutSeparators(l1)) = LowerStr(WithoutSeparators(l2))

\* two names differ only in letter case or in runs of whitespace
SameName(n1, n2) == Split(LowerStr(n1), <<>>) = Split(LowerStr(n2), <<>>)

\* a load has just changed the index, or the index is empty: every value the
\* index ever has is its value in such a state
IndexChanged ==
    call.op = "load_fpl_dir" /\ (db # call.before \/ db = EmptyDict)

\* C22: equivalent identifiers address the same data.  For every value of
\* the index, two landscape identifiers that differ only in letter case,
\* underscores or spaces give the same resolve result for every name, the
\* same count and the same known names; and a request for a name that differs from the
\* canonical name of an entry only in letter case or in runs of whitespace
\* returns the coordinates of that entry, without fuzzy notice.
C22_EquivalentIdentifiers ==
    IndexChanged =>
        /\ \A l1 \in QueryLandscapes, l2 \in QueryLandscapes :
              (StrLess(l1, l2) /\ SameLandscape(l1, l2)) =>
                  /\ count(db, l1) = count(db, l2)
                  /\ known_tps(db, l1) = known_tps(db, l2)
                  /\ \A n \in QueryNames : resolve(db, l1, n) = resolve(db, l2, n)
        /\ \A k \in Keys(db), l \in QueryLandscapes, n \in QueryNames :
              (LowerStr(WithoutSeparators(l)) = k[1]
                  /\ SameName(n, db[k[1]][k[2]][1])) =>
                  resolve(db, l, n) = ResolveResult(Coords(db[k[1]][k[2]]), <<>>)

\* the bucket "ab" holds "Abcd"; it is reached through "A_b" and through
\* "a B", and " ABCD " resolves to the coordinates stored for "Abcd"
C22_Witness ==
    /\ call.op = "load_fpl_dir"
    /\ HasKey(db, ab, abcd)
    /\ db[ab][abcd][1] = Abcd
    /\ count(db, A_b) > 0
    /\ resolve(db, A_b, ABCD_) = ResolveResult(Coords(db[ab][abcd]), <<>>)
    /\ resolve(db, a_B, ABCD_) = ResolveResult(Coords(db[ab][abcd]), <<>>)

(***************************************************************************)
(* Properties of the normalizers (checked under SpecNorm).                 *)
(***************************************************************************)
\* C23: name normalization is idempotent and total.  For every string s
\* _norm_name(s) is defined, normalizing it again gives it back, it has no
\* upper-case letter, no whitespace at either end, no whitespace other than
\* the space and no two spaces in a row.
C23_NormNameIdempotent ==
    call.op = "_norm_name" =>
        /\ _norm_name(call.ret) = call.ret
        /\ \A i \in 1..Len(call.ret) :
              /\ \A j \in 1..Len(UpperCase) : call.ret[i] # UpperCase[j]
              /\ IsSpace(call.ret[i]) =>
                     /\ call.ret[i] = " "
                     /\ 1 < i /\ i < Len(call.ret)
                     /\ ~IsSpace(call.ret[i + 1])

\* a string with an upper-case letter, whitespace at both ends and a run of
\* whitespace inside has been normalized to two words and one space
C23_Witness ==
    /\ call.op = "_norm_name"
    /\ call.arg = <<"A", " ", tab, "b">>
    /\ call.ret = <<"a", " ", "b">>

\* C24: the landscape key has no underscore and no whitespace character of
\* any kind, so that identifiers differing only in such separators get the
\* same key.
C24_NormLandscapeStripsAll ==
    call.op = "_norm_landscape" =>
        \A i \in 1..Len(call.ret) : call.ret[i] # "_" /\ ~IsSpace(call.ret[i])

(***************************************************************************)
(* Further properties of the generator (checked under Spec).               *)
(***************************************************************************)
SectionHeaders ==
    <<"[Version]", "[Task]", "[Weather]", "[WeatherZone0]", "[Plane]",
      "[GameOptions]", "[Description]">>

\* the section header lines of a text, in the order they appear
HeaderLines(lines) ==
    SelectSeq(lines, LAMBDA l :
        l.val = <<>> /\ \E h \in 1..Len(SectionHeaders) : l.key = SectionHeaders[h])

\* two texts are the same line by line but for the value of the RandSeed line
SameButSeed(lines1, lines2) ==
    /\ Len(lines1) = Len(lines2)
    /\ \A j \in 1..Len(lines1) :
          \/ lines1[j] = lines2[j]
          \/ lines1[j].key = "RandSeed" /\ lines2[j].key = "RandSeed"

\* C25: serialization is deterministic except for the seed and its line
\* order is fixed.  The text of every run equals, line by line and but for
\* the value of the RandSeed line, the text build_fpl gives for the same task
\* whatever the random generator returns; its section header lines are
\* [Version], [Task], [Weather], [WeatherZone0], [Plane], [GameOptions],
\* [Description], each once and in that order.
C25_DeterministicButSeed ==
    Built =>
        /\ \A seed \in SeedPool : SameButSeed(BuiltLines, BuildLines(BuiltTask, seed))
        /\ [h \in 1..Len(HeaderLines(BuiltLines)) |-> HeaderLines(BuiltLines)[h].key]
               = SectionHeaders

\* a text was built with the greatest seed; the text for seed 0 differs from
\* it, in the RandSeed line only
C25_Witness ==
    /\ Built
    /\ LineVals(BuiltLines, "RandSeed", -1) = {<<2147483647>>}
    /\ BuildLines(BuiltTask, 0) # BuiltLines
    /\ SameButSeed(BuiltLines, BuildLines(BuiltTask, 0))

(***************************************************************************)
(* Further properties of the queries (checked under SpecQuery).            *)
(***************************************************************************)
\* the similarity ratio of key k1 to the word w is at most that of key k2
RatioAtMost(k1, k2, w) ==
    RatioMatches(k1, w) * (Len(k2) + Len(w)) <= RatioMatches(k2, w) * (Len(k1) + Len(w))

\* C26: a fuzzy result is the best match inside the requested landscape
\* only.  Whenever resolve returns coordinates after an exact miss, they
\* are those of an entry of the requested landscape's bucket whose key has a
\* similarity of at least 0.75 to the normalized request, no key of the
\* bucket having a greater one, and they are not the coordinates of any
\* entry stored under another landscape key.
C26_FuzzyBestInLandscape ==
    (call.op = "resolve" /\ FuzzyHit) =>
        /\ \E k \in DOMAIN db[CallLk] :
              /\ call.ret = Coords(db[CallLk][k])
              /\ Similar(k, CallNk)
              /\ \A k2 \in DOMAIN db[CallLk] : RatioAtMost(k2, k, CallNk)
        /\ \A e \in Keys(db) :
              e[1] # CallLk => call.ret # Coords(db[e[1]][e[2]])

\* a fuzzy hit in a bucket that holds a second, less similar key at or above
\* the cutoff, while another bucket holds a key at or above the cutoff too
C26_Witness ==
    /\ call.op = "resolve"
    /\ FuzzyHit
    /\ \E k \in DOMAIN db[CallLk], k2 \in DOMAIN db[CallLk] :
          /\ call.ret = Coords(db[CallLk][k])
          /\ Similar(k2, CallNk)
          /\ ~RatioAtMost(k, k2, CallNk)
    /\ \E e \in Keys(db) : e[1] # CallLk /\ Similar(e[2], CallNk)

\* the calls that only ask
Queries == {"resolve", "known_tps", "count", "known_landscapes"}

\* C27: queries do not mutate the index.  Every resolve, known_tps, count
\* and known_landscapes call (exact hit, fuzzy hit, miss, or a landscape
\* without bucket) leaves the index and the set of its landscape keys as they
\* were, so every later query is answered from the same index.
C27_QueriesDoNotMutate ==
    [][(call = NoCall /\ call'.op \in Queries) =>
          /\ db' = db
          /\ known_landscapes(db') = known_landscapes(db)]_vars

\* a query for a landscape without bucket was answered on a filled index
C27_Witness ==
    /\ call.op \in {"resolve", "known_tps", "count"}
    /\ db # EmptyDict
    /\ CallLk \notin DOMAIN db

(***************************************************************************)
(* Further properties of the loader (checked under SpecLoad).              *)
(***************************************************************************)
\* the orders in which the files of the directory can be scanned: the scan
\* follows the sorted file names, so an order is a renaming of the files
ScanOrders == {p \in [1..MaxFiles -> 1..MaxFiles] : \A s, t \in 1..MaxFiles : p[s] = p[t] => s = t}

\* the directory with the names of its files exchanged along p
Reordered(files, p) == [s \in 1..MaxFiles |-> files[p[s]]]

\* the load from the same index had the same (landscape key, name key) pairs
\* and the same returned count as the load r
SameKeysAndCount(r) ==
    /\ Keys(r.db) = Keys(db)
    /\ (IF r.raised THEN <<>> ELSE <<r.added>>) = call.ret

\* C28: scan order affects only which duplicate wins.  For any set of
\* flight-plan files, the (landscape key, name key) pairs in the index after
\* the load and the returned count are the same for every order in which
\* the files are scanned.
C28_ScanOrderIrrelevant ==
    call.op = "load_fpl_dir" =>
        \A p \in ScanOrders :
            SameKeysAndCount(load_fpl_dir(call.before, dirExists, Reordered(dir, p)))

\* the same, for the directories no file of which makes the load raise
C28_ScanOrderIrrelevantUnlessRaised ==
    (call.op = "load_fpl_dir" /\ ~call.raised) =>
        \A p \in ScanOrders :
            LET r == load_fpl_dir(call.before, dirExists, Reordered(dir, p))
            IN  ~r.raised => Keys(r.db) = Keys(db) /\ <<r.added>> = call.ret

\* C29: prepending keeps the task order and the input intact.  build_fpl
\* emits the task turnpoints in input order at the indices 1..N after the
\* airfield at index 0, input turnpoint k at index k with its own name, x, y,
\* z, radius, angle, sector type and sector direction (k counted from 1; the
\* defaults 3000, 180, 0 and 0 where it carries none), and the task dict of
\* the caller and each of its turnpoints are after the call what they were
\* before.
C29_PrependKeepsOrderAndInput ==
    /\ Built =>
          \A k \in 1..Len(BuiltTps) :
              LET tp == BuiltTps[k]
              IN  /\ LineVals(BuiltLines, "TPName", k) = {<<tp["name"]>>}
                  /\ LineVals(BuiltLines, "TPPosX", k) = {<<tp["x"]>>}
                  /\ LineVals(BuiltLines, "TPPosY", k) = {<<tp["y"]>>}
                  /\ LineVals(BuiltLines, "TPPosZ", k) = {<<tp["z"]>>}
                  /\ LineVals(BuiltLines, "TPRadius", k) = {<<TpGet(tp, "radius_m", 3000)>>}
                  /\ LineVals(BuiltLines, "TPAngle", k) = {<<TpGet(tp, "angle_deg", 180)>>}
                  /\ LineVals(BuiltLines, "TPSectorType", k) = {<<TpGet(tp, "sector_type", 0)>>}
                  /\ LineVals(BuiltLines, "TPSectorDirection", k) =
                         {<<TpGet(tp, "sector_dir", 0)>>}
    /\ HasTask => run.after = run.task

\* a JSON task of three turnpoints with sectors of their own and an explicit
\* airfield was built
C29_Witness ==
    /\ Built /\ run.mode = "json"
    /\ "airport_tp" \in DOMAIN BuiltTask
    /\ Len(BuiltTps) = 3
    /\ \A k \in 1..3 : "radius_m" \in DOMAIN BuiltTps[k]
    /\ run.after = <<BuiltTask>>

(***************************************************************************)
(* Further properties of the window (checked under Spec).                  *)
(***************************************************************************)
\* a thread or a queued callback of the load requested last is outstanding
LatestInFlight ==
    \/ \E i \in 1..Len(gui.workers) : gui.workers[i].latest
    \/ \E j \in 1..Len(gui.events) : gui.events[j].latest

\* every thread has finished and every callback has run
LoadsCompleted == gui.open /\ gui.workers = <<>> /\ gui.events = <<>>

\* C30: background loads leave no stale task.  Once every load started has
\* completed, a task the window holds (the one Generate serializes) is the
\* one parsed from the PDF requested last, and Generate is not enabled while
\* the load requested last is still in progress.
C30_NoStaleTask ==
    /\ (LoadsCompleted /\ gui.task # <<>>) =>
           gui.task = pdf_to_task(gui.pdf[1], dirExists, dir).task
    /\ LatestInFlight => gui.gen = "disabled"

====
